---- MODULE Spec2Model ----
(***************************************************************************)
(* A model of the todu task manager: the /api/tasks route handlers over    *)
(* the task collection, the all-tasks view that calls them, the task-edit  *)
(* dialog's progress display, the list search, the timeline and the app    *)
(* layout.                                                                 *)
(*                                                                         *)
(*   Spec          the route handlers under concurrent requests            *)
(*   SpecQuery     GET under every combination of its query parameters     *)
(*   SpecSearch    the search of GET beside the search box of the view     *)
(*   SpecProgress  the dialog, its checklist and the progress displays     *)
(*   SpecView      the all-tasks view beside requests sent from elsewhere  *)
(*   SpecBoard     creating, moving, deleting and reordering tasks         *)
(*   SpecTimeline  the days on which the timeline shows a task             *)
(*   SpecLayout    the app layout and the page it wraps                    *)
(*   SpecCreate    concurrent creates whose bodies name an owner or order  *)
(*   SpecDialog    the dialog opened for new tasks and for edits           *)
(*   SpecTags      the tags of the task under edit in the dialog           *)
(*   SpecPersonal  the personal timeline over the tasks of two users       *)
(*   SpecLoad      a list view mounting, under fairness                    *)
(*   SpecColor     the colour of a user badge                              *)
(***************************************************************************)
EXTENDS Integers, Sequences, FiniteSets, TLC

\* ------------------------------------------------------------------ bounds
\* Documents ever created in one run (ids are never reused).
MaxTasks == 2
\* Requests that may be in flight at once.
MaxInflight == 2
\* Requests of the all-tasks view that may be in flight at once.
MaxViewInflight == 1
\* Items of the checklist under edit in the dialog.
MaxItems == 4
\* Tags of the task under edit in the dialog.
MaxTags == 2
\* Characters of a user id.
MaxIdLen == 5

\* --------------------------------------------------------------- constants
\* Instants of a day that the model tells apart: midnight and the instants
\* after it.
TicksPerDay == 2
\* Weeks the timeline may show.
MaxWeeks == 2
\* startOfWeek to endOfWeek: the seven days of a week.
DaysPerWeek == 7

Users == {"u1", "u2"}
\* getServerSession() returned no session, or one without a user id.
NoUser == "none"
Sessions == Users \cup {NoUser}
Statuses == {"backlog", "in_progress", "done"}
\* A field the request left out (undefined).
Absent == "absent"
Slots == 1..MaxInflight
Ids == 1..MaxTasks

VARIABLES
    db,         \* the tasks collection: a set of documents
    nextId,     \* the next _id the store hands out
    reqs,       \* the requests in flight, one per slot
    mounted,    \* AllTasksView has rendered and its effect has run
    tasks,      \* AllTasksView, TimelineView: the local task list
    isLoading,  \* AllTasksView, TimelineView: the first fetch has not settled
    searchQuery,     \* AllTasksView: the text of the search box
    statusFilter,    \* AllTasksView: the status Select of the filter bar
    priorityFilter,  \* AllTasksView: the priority Select of the filter bar
    editingTask,     \* AllTasksView: the task handed to the dialog, if any
    isDialogOpen,    \* AllTasksView: the dialog is open
    checklistItems,  \* TaskDialog: the checklist under edit
    watchedPercent,  \* TaskDialog: the form's percent field
    deletedOk,  \* history: ids whose DELETE the view has seen answered ok
    confirmed,  \* handleTaskDelete: what confirm() has just returned, if any
    currentDate,     \* TimelineView: the instant whose week is on display
    selectedTag,     \* TimelineView: the tag of the tag filter, or "all"
    layout,          \* AppLayout: its session and what it has rendered
    watchedTags,     \* TaskDialog: the form's tags field
    tagInput,        \* TaskDialog: the text of the tag input
    avatar           \* TimelineView: the user badge last rendered, if any

server == <<db, nextId>>
view == <<mounted, tasks, isLoading, confirmed>>
filters == <<searchQuery, statusFilter, priorityFilter>>
dialog == <<editingTask, isDialogOpen, checklistItems, watchedPercent>>
timeline == <<currentDate, selectedTag>>
tagsForm == <<watchedTags, tagInput>>
vars == <<db, nextId, reqs, mounted, tasks, isLoading, searchQuery,
          statusFilter, priorityFilter, editingTask, isDialogOpen,
          checklistItems, watchedPercent, deletedOk, confirmed,
          currentDate, selectedTag, layout, watchedTags, tagInput, avatar>>

\* ----------------------------------------------------------------- time
\* A Date is an instant, counted in ticks from the midnight that starts
\* the first week; a calendar day is counted from that day.
Instants == 0..(MaxWeeks * DaysPerWeek * TicksPerDay - 1)
DayOf(instant) == instant \div TicksPerDay
Midnight(day) == day * TicksPerDay

\* new Date(): some instant of the second day, past its midnight.
Now == Midnight(1) + 1

\* ------------------------------------------------------------ documents
\* Text is a sequence of characters; "A" is the upper case of "a", and "." is
\* the one regular-expression metacharacter of the alphabet.
Lower(c) == IF c = "A" THEN "a" ELSE c
LowerStr(t) == [i \in 1..Len(t) |-> Lower(t[i])]

\* An optional value is the empty set (undefined) or a singleton.
None == {}
Some(x) == {x}
IsSome(o) == o # {}
The(o) == CHOOSE x \in o : TRUE

DefaultTitle == <<"a", "b", "c">>

\* A slot with no request in it.
Idle ==
    [kind |-> "idle", user |-> NoUser, origin |-> "raw", pc |-> "done",
     code |-> 0, status |-> Absent, id |-> 0, order |-> 0,
     reads |-> 0, writes |-> 0, result |-> <<>>, errors |-> FALSE,
     query |-> <<>>, body |-> <<>>, prev |-> Absent]

\* The largest element of a non-empty set of integers.
MaxOf(S) == CHOOSE x \in S : \A y \in S : y <= x

\* ------------------------------------------------------- GET /api/tasks
\* MongoDB's $regex with $options 'i', unanchored: the pattern matches at
\* some offset of the text, "." matching any character.
RegexMatchAt(pat, t, off) ==
    /\ off + Len(pat) <= Len(t)
    /\ \A k \in 1..Len(pat) :
          \/ pat[k] = "."
          \/ Lower(pat[k]) = Lower(t[off + k])

RegexSearch(pat, t) == \E off \in 0..Len(t) : RegexMatchAt(pat, t, off)

\* { title: {$regex: q, $options: 'i'} } or the same on description; a
\* document without a description matches on its title alone.
MatchQ(q, d) ==
    \/ RegexSearch(q, d.title)
    \/ (IsSome(d.description) /\ RegexSearch(q, The(d.description)))

\* { field: {$gte: bound} } and { field: {$lte: bound} }: a document without
\* the field does not match.
Gte(field, bound) == IsSome(field) /\ The(field) >= bound
Lte(field, bound) == IsSome(field) /\ The(field) <= bound

MatchDates(query, d) ==
    /\ IsSome(query.from) =>
          (Gte(d.startAt, The(query.from)) \/ Gte(d.dueAt, The(query.from)))
    /\ IsSome(query.to) =>
          (Lte(d.startAt, The(query.to)) \/ Lte(d.dueAt, The(query.to)))

\* A string is truthy when it is given and not empty.
Truthy(text) == IsSome(text) /\ The(text) # <<>>

\* A filter that leaves the userId out when the query asks for scope=all.
MatchFilterScopeAll(user, query, d) ==
    /\ (query.scope # "all" => d.userId = user)
    /\ (query.status # Absent => d.status = query.status)
    /\ (Truthy(query.q) => MatchQ(The(query.q), d))
    /\ MatchDates(query, d)

\* The filter object GET builds: userId always, the rest when given.
MatchFilter(user, query, d) ==
    /\ d.userId = user
    /\ (query.status # Absent => d.status = query.status)
    /\ (Truthy(query.q) => MatchQ(The(query.q), d))
    /\ MatchDates(query, d)

\* sort({status: 1, order: 1}): statuses compare as strings.
StatusRank(st) ==
    CASE st = "backlog" -> 0
      [] st = "done" -> 1
      [] st = "in_progress" -> 2

\* A sort by order alone, sort({ order: 1 }).
SortKeyLeqByOrder(a, b) == a.order <= b.order

SortKeyLeq(a, b) ==
    \/ StatusRank(a.status) < StatusRank(b.status)
    \/ (a.status = b.status /\ a.order <= b.order)

\* Every ordering of the documents of S the sort may return (documents with
\* equal keys come in any order).
SortedResults(S) ==
    { r \in [1..Cardinality(S) -> S] :
        /\ \A i, j \in 1..Cardinality(S) : i # j => r[i] # r[j]
        /\ \A i, j \in 1..Cardinality(S) : i < j => SortKeyLeq(r[i], r[j]) }

\* The lowest free slot takes the next request.
FreeSlot(s) ==
    /\ reqs[s].kind = "idle"
    /\ \A t \in Slots : t < s => reqs[t].kind # "idle"

\* A response stays in its slot until its caller has taken it; nothing else
\* runs while a response waits for a caller that only reads it, nor between
\* the return of confirm() and the line after it.
NoneWaiting ==
    /\ confirmed = None
    /\ \A s \in Slots : ~(reqs[s].pc = "done" /\ reqs[s].kind # "idle"
                           /\ reqs[s].origin = "raw")

\* Lines 27-57 of GET: the documents Task.find(filter) matches, sorted.
FindTasks(user, query) ==
    SortedResults({d \in db : MatchFilter(user, query, d)})

\* A handler that queries the store before it has looked at the session.
GetRespondFindFirst(r, storeOk, found) ==
    IF ~r.query.valid THEN [r EXCEPT !.pc = "done", !.code = 500]
    ELSE IF ~storeOk THEN [r EXCEPT !.pc = "done", !.code = 500]
    ELSE IF r.user = NoUser
         THEN [r EXCEPT !.pc = "done", !.code = 401, !.reads = 1]
    ELSE [r EXCEPT !.pc = "done", !.code = 200, !.reads = 1,
                   !.result = found]

\* GET /api/tasks, the whole handler on request r. Lines 11-14: no session
\* user, 401. Lines 16-22: getTasksQuerySchema.parse; its ZodError lands in
\* the catch of lines 60-66, which answers 500 to every error. Lines 24-59:
\* the find, answered 200, or a store error (500).
GetRespond(r, storeOk, found) ==
    IF r.user = NoUser THEN [r EXCEPT !.pc = "done", !.code = 401]
    ELSE IF ~r.query.valid THEN [r EXCEPT !.pc = "done", !.code = 500]
    ELSE IF ~storeOk THEN [r EXCEPT !.pc = "done", !.code = 500]
    ELSE [r EXCEPT !.pc = "done", !.code = 200, !.reads = 1,
                   !.result = found]

GET(s, sess, query) ==
    /\ NoneWaiting /\ FreeSlot(s)
    /\ \E storeOk \in BOOLEAN, found \in FindTasks(sess, query) :
          reqs' = [reqs EXCEPT ![s] =
             GetRespond([Idle EXCEPT !.kind = "GET", !.user = sess,
                            !.query = query], storeOk, found)]
    /\ UNCHANGED <<db, nextId, view, filters, dialog, deletedOk, timeline,
                   layout,
                   tagsForm, avatar>>

\* ------------------------------------------------------ POST /api/tasks
\* taskSchema of lib/validations: status defaults to backlog, percent to 0,
\* tags to the empty list.
TaskSchemaParse(body) ==
    [body EXCEPT !.status = IF body.status = Absent THEN "backlog"
                            ELSE body.status,
                 !.percent = IF body.percent = None THEN 0
                             ELSE The(body.percent),
                 !.tags = IF body.tags = None THEN <<>>
                          ELSE The(body.tags)]

\* An order that counts from one.
NextOrderFromOne(coll, user, status) ==
    Cardinality({d \in coll : d.userId = user /\ d.status = status}) + 1

\* Line 87: const order = lastTask ? lastTask.order + 1 : 0, lastTask being
\* the user's document of that status with the largest order.
NextOrderIn(coll, user, status) ==
    LET col == {d \in coll : d.userId = user /\ d.status = status}
    IN IF col = {} THEN 0 ELSE MaxOf({d.order : d \in col}) + 1

NextOrder(user, status) == NextOrderIn(db, user, status)

\* A handler that runs its findOne on the column before it parses the body.
PostBeginFindFirst(r, body, storeOk) ==
    IF r.user = NoUser THEN [r EXCEPT !.pc = "done", !.code = 401]
    ELSE IF ~storeOk THEN [r EXCEPT !.pc = "done", !.code = 500]
    ELSE IF body.shape = "malformed"
         THEN [r EXCEPT !.pc = "done", !.code = 500, !.reads = 1]
    ELSE IF body.shape = "invalid"
         THEN [r EXCEPT !.pc = "done", !.code = 400, !.errors = TRUE,
                  !.reads = 1]
    ELSE [r EXCEPT !.pc = "create", !.reads = 1,
             !.body = TaskSchemaParse(body),
             !.order = NextOrder(r.user, TaskSchemaParse(body).status)]

\* POST /api/tasks up to its second await on the store. Lines 71-74: no
\* session user, 401. Lines 76-77: request.json() throws a SyntaxError on a
\* body that is no JSON (500, lines 104-108), taskSchema.parse a ZodError
\* (400 with the issues, lines 97-102). Lines 79-87: the findOne, or a store
\* error (500).
PostBegin(r, body, storeOk) ==
    IF r.user = NoUser THEN [r EXCEPT !.pc = "done", !.code = 401]
    ELSE IF body.shape = "malformed" THEN [r EXCEPT !.pc = "done", !.code = 500]
    ELSE IF body.shape = "invalid"
         THEN [r EXCEPT !.pc = "done", !.code = 400, !.errors = TRUE]
    ELSE IF ~storeOk THEN [r EXCEPT !.pc = "done", !.code = 500]
    ELSE [r EXCEPT !.pc = "create", !.reads = 1,
             !.body = TaskSchemaParse(body),
             !.order = NextOrder(r.user, TaskSchemaParse(body).status)]

POST(s, sess, body) ==
    /\ NoneWaiting /\ FreeSlot(s)
    /\ \E storeOk \in BOOLEAN :
          reqs' = [reqs EXCEPT ![s] =
             PostBegin([Idle EXCEPT !.kind = "POST", !.user = sess,
                           !.body = body, !.status = body.status],
                       body, storeOk)]
    /\ UNCHANGED <<db, nextId, view, filters, dialog, deletedOk, timeline,
                   layout,
                   tagsForm, avatar>>

\* A document built without the userId line: the owner stays undefined.
NewDocNoOwner(r, id) ==
    [id |-> id, userId |-> Absent, status |-> r.body.status,
     order |-> r.order, title |-> r.body.title,
     description |-> r.body.description,
     startAt |-> r.body.startAt, dueAt |-> r.body.dueAt,
     priority |-> r.body.priority, items |-> r.body.items,
     percent |-> r.body.percent, tags |-> r.body.tags]

\* An object literal with the spread last, { userId, order, ...taskData }:
\* what the body supplies wins.
NewDocBodyLast(r, id) ==
    [id |-> id,
     userId |-> IF r.body.userId # Absent THEN r.body.userId ELSE r.user,
     status |-> r.body.status,
     order |-> IF r.body.order # None THEN The(r.body.order) ELSE r.order,
     title |-> r.body.title,
     description |-> r.body.description,
     startAt |-> r.body.startAt, dueAt |-> r.body.dueAt,
     priority |-> r.body.priority, items |-> r.body.items,
     percent |-> r.body.percent, tags |-> r.body.tags]

\* Lines 89-93: { ...taskData, userId: session.user.id, order }. The keys
\* written after the spread win over a userId or an order that taskData
\* may carry.
NewDoc(r, id) ==
    [id |-> id, userId |-> r.user, status |-> r.body.status,
     order |-> r.order, title |-> r.body.title,
     description |-> r.body.description,
     startAt |-> r.body.startAt, dueAt |-> r.body.dueAt,
     priority |-> r.body.priority, items |-> r.body.items,
     percent |-> r.body.percent, tags |-> r.body.tags]

\* A create whose document is stored although the handler then throws and
\* answers 500.
PostCreateThenFail(s) ==
    /\ NoneWaiting
    /\ reqs[s].kind = "POST" /\ reqs[s].pc = "create"
    /\ nextId <= MaxTasks
    /\ db' = db \cup {NewDoc(reqs[s], nextId)}
    /\ nextId' = nextId + 1
    /\ reqs' = [reqs EXCEPT ![s].pc = "done", ![s].code = 500]
    /\ UNCHANGED <<view, filters, dialog, deletedOk, timeline, layout,
                   tagsForm, avatar>>

\* Lines 89-95 of POST: Task.create, answered 201, or a store error (500).
PostCreate(s) ==
    /\ NoneWaiting
    /\ reqs[s].kind = "POST" /\ reqs[s].pc = "create"
    /\ \/ /\ nextId <= MaxTasks
          /\ db' = db \cup {NewDoc(reqs[s], nextId)}
          /\ nextId' = nextId + 1
          /\ reqs' = [reqs EXCEPT ![s].pc = "done", ![s].code = 201,
                ![s].writes = 1, ![s].id = nextId,
                ![s].result = <<NewDoc(reqs[s], nextId)>>]
       \/ /\ reqs' = [reqs EXCEPT ![s].pc = "done", ![s].code = 500]
          /\ UNCHANGED <<db, nextId>>
    /\ UNCHANGED <<view, filters, dialog, deletedOk, timeline, layout,
                   tagsForm, avatar>>

\* ------------------------------------------- PATCH, DELETE /api/tasks/:id
\* The document the request may touch: findOneAndUpdate and findOneAndDelete
\* look it up by _id and the session's user id.
Owned(r) == {d \in db : d.id = r.id /\ d.userId = r.user}

\* PATCH /api/tasks/:id: 401 without a session user, 400 on a body the
\* schema rejects, 404 when the user owns no such task, else 200.
PatchCode(r, storeOk) ==
    IF r.user = NoUser THEN 401
    ELSE IF r.body.shape # "ok" THEN 400
    ELSE IF ~storeOk THEN 500
    ELSE IF Owned(r) = {} THEN 404
    ELSE 200

\* An update that keeps the first status written: a task that has left the
\* backlog, where every task starts, keeps its status.
PatchDocFirstWins(d, body) ==
    [d EXCEPT !.status = IF body.status = Absent \/ d.status # "backlog"
                         THEN d.status
                         ELSE body.status,
              !.items = IF body.items = None THEN d.items
                        ELSE The(body.items),
              !.percent = IF body.percent = None THEN d.percent
                          ELSE The(body.percent)]

\* The update PATCH applies to the document: the fields the body carries.
PatchDoc(d, body) ==
    [d EXCEPT !.status = IF body.status = Absent THEN d.status
                         ELSE body.status,
              !.items = IF body.items = None THEN d.items
                        ELSE The(body.items),
              !.percent = IF body.percent = None THEN d.percent
                          ELSE The(body.percent)]

PatchRespond(r, storeOk) ==
    IF PatchCode(r, storeOk) = 200
    THEN [r EXCEPT !.pc = "done", !.code = 200, !.reads = 1, !.writes = 1,
             !.prev = The(Owned(r)).status,
             !.result = <<PatchDoc(The(Owned(r)), r.body)>>]
    ELSE [r EXCEPT !.pc = "done", !.code = PatchCode(r, storeOk),
             !.reads = IF PatchCode(r, storeOk) = 404 THEN 1 ELSE 0,
             !.errors = (PatchCode(r, storeOk) = 400)]

PatchStore(r, storeOk) ==
    IF PatchCode(r, storeOk) = 200
    THEN (db \ Owned(r)) \cup {PatchDoc(The(Owned(r)), r.body)}
    ELSE db

PATCH(s, sess, id, body) ==
    /\ NoneWaiting /\ FreeSlot(s)
    /\ \E storeOk \in BOOLEAN :
          LET r == [Idle EXCEPT !.kind = "PATCH", !.user = sess, !.id = id,
                       !.body = body]
          IN /\ reqs' = [reqs EXCEPT ![s] = PatchRespond(r, storeOk)]
             /\ db' = PatchStore(r, storeOk)
    /\ UNCHANGED <<nextId, view, filters, dialog, deletedOk, timeline, layout,
                   tagsForm, avatar>>

\* DELETE /api/tasks/:id: 401 without a session user, 404 when the user owns
\* no such task, else the document is removed and the answer is 200.
DeleteCode(r, storeOk) ==
    IF r.user = NoUser THEN 401
    ELSE IF ~storeOk THEN 500
    ELSE IF Owned(r) = {} THEN 404
    ELSE 200

DeleteRespond(r, storeOk) ==
    [r EXCEPT !.pc = "done", !.code = DeleteCode(r, storeOk),
        !.reads = IF DeleteCode(r, storeOk) \in {200, 404} THEN 1 ELSE 0,
        !.writes = IF DeleteCode(r, storeOk) = 200 THEN 1 ELSE 0]

DeleteStore(r, storeOk) ==
    IF DeleteCode(r, storeOk) = 200 THEN db \ Owned(r) ELSE db

DELETE(s, sess, id) ==
    /\ NoneWaiting /\ FreeSlot(s)
    /\ \E storeOk \in BOOLEAN :
          LET r == [Idle EXCEPT !.kind = "DELETE", !.user = sess, !.id = id]
          IN /\ reqs' = [reqs EXCEPT ![s] = DeleteRespond(r, storeOk)]
             /\ db' = DeleteStore(r, storeOk)
    /\ UNCHANGED <<nextId, view, filters, dialog, deletedOk, timeline, layout,
                   tagsForm, avatar>>

\* A PATCH or DELETE the user sends from another tab that succeeds, with its
\* response taken at once: what is left of it is its effect on the store.
PatchElsewhere(sess, id, body) ==
    /\ NoneWaiting
    /\ LET r == [Idle EXCEPT !.kind = "PATCH", !.user = sess, !.id = id,
                    !.body = body]
       IN /\ PatchCode(r, TRUE) = 200
          /\ db' = PatchStore(r, TRUE)
    /\ UNCHANGED <<nextId, reqs, view, filters, dialog, deletedOk, timeline,
                   layout,
                   tagsForm, avatar>>

DeleteElsewhere(sess, id) ==
    /\ NoneWaiting
    /\ LET r == [Idle EXCEPT !.kind = "DELETE", !.user = sess, !.id = id]
       IN /\ DeleteCode(r, TRUE) = 200
          /\ db' = DeleteStore(r, TRUE)
    /\ UNCHANGED <<nextId, reqs, view, filters, dialog, deletedOk, timeline,
                   layout,
                   tagsForm, avatar>>

\* ------------------------------------------------- reordering a column
\* The column of a user: the user's documents of one status.
Column(user, status) == {d \in db : d.userId = user /\ d.status = status}

\* The ways to rank the documents of a column: each id once.
Rankings(col) ==
    {r \in [1..Cardinality(col) -> {d.id : d \in col}] :
        \A i, j \in 1..Cardinality(col) : r[i] = r[j] => i = j}

\* A renumbering that counts from one.
ReorderedFromOne(col, ranking) ==
    {[d EXCEPT !.order = CHOOSE k \in 1..Len(ranking) : ranking[k] = d.id] :
        d \in col}

\* The column renumbered after a ranking: the first document gets order 0,
\* the next 1, and so on.
Reordered(col, ranking) ==
    {[d EXCEPT !.order =
         (CHOOSE k \in 1..Len(ranking) : ranking[k] = d.id) - 1] :
        d \in col}

\* A user reorders one of their columns, and the request succeeds.
Reorder(user, status, ranking) ==
    /\ NoneWaiting
    /\ Column(user, status) # {}
    /\ ranking \in Rankings(Column(user, status))
    /\ db' = (db \ Column(user, status))
                 \cup Reordered(Column(user, status), ranking)
    /\ UNCHANGED <<nextId, reqs, view, filters, dialog, deletedOk, timeline,
                   layout,
                   tagsForm, avatar>>

\* The caller takes the response of a request it sent itself.
RawReceive(s) ==
    /\ reqs[s].kind # "idle" /\ reqs[s].pc = "done" /\ reqs[s].origin = "raw"
    /\ reqs' = [reqs EXCEPT ![s] = Idle]
    /\ UNCHANGED <<db, nextId, view, filters, dialog, deletedOk, timeline,
                   layout,
                   tagsForm, avatar>>

\* ------------------------------------------------ requests of the view
\* The user the browser is logged in as; the cookie may have expired.
ClientUser == "u1"
ClientSessions == {ClientUser, NoUser}

\* What POST answers when its run does not create the task: the answer of
\* its checks, or the 500 of a create the store refuses.
PostFailed(r, storeOk) ==
    LET begun == PostBegin(r, r.body, storeOk)
    IN  IF begun.pc = "done" THEN begun
        ELSE [begun EXCEPT !.pc = "done", !.code = 500]

\* What a handler answers to a request of the view, for each way the run may
\* go: the session cookie may have expired, the store may fail.
Answers(r) ==
    UNION { IF r.kind = "GET"
            THEN { GetRespond([r EXCEPT !.user = sess], ok, found) :
                      found \in FindTasks(sess, r.query) }
            ELSE IF r.kind = "PATCH"
            THEN { PatchRespond([r EXCEPT !.user = sess], ok) }
            ELSE IF r.kind = "POST"
            THEN { PostFailed([r EXCEPT !.user = sess], ok) }
            ELSE { DeleteRespond([r EXCEPT !.user = sess], ok) } :
              sess \in ClientSessions, ok \in BOOLEAN }

\* fetch() rejected: the request never arrived, or its response was lost.
Rejected(r) == [r EXCEPT !.pc = "done", !.code = 0, !.result = <<>>]

\* The server runs the handler of a request the view has sent, and the run
\* succeeds. (A run that fails leaves the store as it is: see Settled.)
ServeGet(s) ==
    /\ NoneWaiting
    /\ reqs[s].kind = "GET" /\ reqs[s].pc = "sent"
    /\ \E resp \in Answers(reqs[s]) :
          /\ resp.code = 200
          /\ reqs' = [reqs EXCEPT ![s] = resp]
    /\ UNCHANGED <<db, nextId, view, filters, dialog, deletedOk, timeline,
                   layout,
                   tagsForm, avatar>>

ServePatch(s) ==
    /\ NoneWaiting
    /\ reqs[s].kind = "PATCH" /\ reqs[s].pc = "sent"
    /\ PatchCode(reqs[s], TRUE) = 200
    /\ reqs' = [reqs EXCEPT ![s] = PatchRespond(reqs[s], TRUE)]
    /\ db' = PatchStore(reqs[s], TRUE)
    /\ UNCHANGED <<nextId, view, filters, dialog, deletedOk, timeline, layout,
                   tagsForm, avatar>>

\* POST of the dialog, run to its 201: findOne, then create.
ServePost(s) ==
    /\ NoneWaiting
    /\ reqs[s].kind = "POST" /\ reqs[s].pc = "sent"
    /\ nextId <= MaxTasks
    /\ LET begun == PostBegin(reqs[s], reqs[s].body, TRUE)
       IN  /\ begun.pc = "create"
           /\ db' = db \cup {NewDoc(begun, nextId)}
           /\ reqs' = [reqs EXCEPT ![s] =
                 [begun EXCEPT !.pc = "done", !.code = 201, !.writes = 1,
                     !.id = nextId, !.result = <<NewDoc(begun, nextId)>>]]
    /\ nextId' = nextId + 1
    /\ UNCHANGED <<view, filters, dialog, deletedOk, timeline, layout,
                   tagsForm, avatar>>

ServeDelete(s) ==
    /\ NoneWaiting
    /\ reqs[s].kind = "DELETE" /\ reqs[s].pc = "sent"
    /\ DeleteCode(reqs[s], TRUE) = 200
    /\ reqs' = [reqs EXCEPT ![s] = DeleteRespond(reqs[s], TRUE)]
    /\ db' = DeleteStore(reqs[s], TRUE)
    /\ UNCHANGED <<nextId, view, filters, dialog, deletedOk, timeline, layout,
                   tagsForm, avatar>>

\* What the await of the request in slot s resumes with when no response is
\* lost: the response that waits in the slot; or, the run still to come, any
\* answer of a run that fails, which changes nothing in the store, or the
\* rejection of a request that never arrived.
Settled(s) ==
    IF reqs[s].pc = "done" THEN {reqs[s]}
    ELSE {resp \in Answers(reqs[s]) : resp.code # 200}
         \cup {Rejected(reqs[s])}

\* The same on a network that may lose the response of a run that
\* succeeded: fetch() then rejects although the store has changed.
Resumed(s) == Settled(s) \cup {Rejected(reqs[s])}

\* A caller that does not look at the status of the response.
ResponseOkAlways(r) == TRUE

\* response.ok: a status of 200 to 299.
ResponseOk(r) == r.code >= 200 /\ r.code <= 299

\* ---------------------------------------------------------- AppLayout
\* No page of the app has been asked for yet.
NotAsked == [session |-> NoUser, location |-> "", children |-> FALSE]

\* The layout has rendered its children for the session of the view's user.
Rendered == [session |-> ClientUser, location |-> "/app", children |-> TRUE]

\* A layout that renders its children whether or not there is a session.
AppLayoutNoRedirect(sess) ==
    /\ ~layout.children
    /\ layout' = [session |-> sess, location |-> "/app", children |-> TRUE]
    /\ UNCHANGED <<db, nextId, reqs, view, filters, dialog, deletedOk,
                   timeline,
                   tagsForm, avatar>>

\* AppLayout, lines 11-24, for a request of a page of the app: without a
\* session redirect('/login'), which throws, so that nothing below it is
\* rendered; with one the sidebar and the children.
AppLayout(sess) ==
    /\ ~layout.children
    /\ layout' = IF sess = NoUser
                 THEN [session |-> sess, location |-> "/login",
                       children |-> FALSE]
                 ELSE [session |-> sess, location |-> "/app",
                       children |-> TRUE]
    /\ UNCHANGED <<db, nextId, reqs, view, filters, dialog, deletedOk,
                   timeline,
                   tagsForm, avatar>>

\* ------------------------------------------------------- AllTasksView
\* fetch('/api/tasks'): no query parameter.
NoQuery ==
    [valid |-> TRUE, status |-> Absent, q |-> None, from |-> None,
     to |-> None, scope |-> Absent]

\* useEffect(() => { fetchTasks(); }, []) on the first render.
Mount(s) ==
    /\ NoneWaiting /\ FreeSlot(s)
    /\ layout.children
    /\ ~mounted
    /\ mounted' = TRUE
    /\ reqs' = [reqs EXCEPT ![s] =
          [Idle EXCEPT !.kind = "GET", !.user = ClientUser, !.query = NoQuery,
              !.origin = "fetchTasks", !.pc = "sent"]]
    /\ UNCHANGED <<db, nextId, tasks, isLoading, confirmed, filters, dialog,
                   deletedOk, timeline, layout,
                   tagsForm, avatar>>

\* The effect of the timeline (part_002 lines 74-93): its fetchTasks asks
\* for the tasks of every user.
MountTimeline(s) ==
    /\ NoneWaiting /\ FreeSlot(s)
    /\ layout.children
    /\ ~mounted
    /\ mounted' = TRUE
    /\ reqs' = [reqs EXCEPT ![s] =
          [Idle EXCEPT !.kind = "GET", !.user = ClientUser,
              !.query = [NoQuery EXCEPT !.scope = "all"],
              !.origin = "fetchTasks", !.pc = "sent"]]
    /\ UNCHANGED <<db, nextId, tasks, isLoading, confirmed, filters, dialog,
                   deletedOk, timeline, layout, tagsForm, avatar>>

\* A fetchTasks without the finally: setIsLoading(false) stands after
\* setTasks(data).
fetchTasksNoFinally(s) ==
    /\ NoneWaiting
    /\ reqs[s].origin = "fetchTasks"
    /\ \E resp \in Resumed(s) :
          /\ tasks' = IF ResponseOk(resp) THEN resp.result ELSE tasks
          /\ isLoading' = IF ResponseOk(resp) THEN FALSE ELSE isLoading
    /\ reqs' = [reqs EXCEPT ![s] = Idle]
    /\ UNCHANGED <<db, nextId, mounted, confirmed, filters, dialog, deletedOk,
                   timeline, layout, tagsForm, avatar>>

\* fetchTasks after its await: setTasks(data) when response.ok; finally
\* setIsLoading(false).
fetchTasks(s) ==
    /\ NoneWaiting
    /\ reqs[s].origin = "fetchTasks"
    /\ \E resp \in Resumed(s) :
          tasks' = IF ResponseOk(resp) THEN resp.result ELSE tasks
    /\ isLoading' = FALSE
    /\ reqs' = [reqs EXCEPT ![s] = Idle]
    /\ UNCHANGED <<db, nextId, mounted, confirmed, filters, dialog, deletedOk,
                   timeline, layout,
                   tagsForm, avatar>>

\* String.prototype.includes: needle occurs in hay, character for
\* character, at some offset.
Includes(hay, needle) ==
    \E off \in 0..Len(hay) :
        /\ off + Len(needle) <= Len(hay)
        /\ \A k \in 1..Len(needle) : needle[k] = hay[off + k]

\* Lines 504-511: the search box keeps a task when the lower-cased query
\* occurs in its lower-cased title, or in its description if it has one.
SearchKeeps(task) ==
    \/ Includes(LowerStr(task.title), LowerStr(searchQuery))
    \/ /\ Truthy(task.description)
       /\ Includes(LowerStr(The(task.description)), LowerStr(searchQuery))

\* The effect of lines 501-522, run after every change of the list or of a
\* filter: filteredTasks.
filteredTasks ==
    LET Keep(task) ==
           /\ (searchQuery # <<>> => SearchKeeps(task))
           /\ (statusFilter # "all" => task.status = statusFilter)
           /\ (priorityFilter # "all" => task.priority = priorityFilter)
    IN SelectSeq(tasks, Keep)

\* The search box and the two Selects of the filter bar.
setSearchQuery(text) ==
    /\ searchQuery' = text
    /\ UNCHANGED <<db, nextId, reqs, view, statusFilter, priorityFilter,
                   dialog, deletedOk, timeline, layout,
                   tagsForm, avatar>>

setStatusFilter(value) ==
    /\ statusFilter' = value
    /\ UNCHANGED <<db, nextId, reqs, view, searchQuery, priorityFilter,
                   dialog, deletedOk, timeline, layout,
                   tagsForm, avatar>>

setPriorityFilter(value) ==
    /\ priorityFilter' = value
    /\ UNCHANGED <<db, nextId, reqs, view, searchQuery, statusFilter,
                   dialog, deletedOk, timeline, layout,
                   tagsForm, avatar>>

\* The ids of the cards the list shows: none while it loads (line 610),
\* then one card per filtered task.
Shown ==
    IF isLoading THEN {}
    ELSE {filteredTasks[i].id : i \in 1..Len(filteredTasks)}

\* A filter that drops nothing.
WithoutTaskKeepsAll(list, taskId) == list

\* prevTasks.filter((t) => t._id !== taskId)
WithoutTask(list, taskId) ==
    LET Keep(t) == t.id # taskId IN SelectSeq(list, Keep)

\* Line 530, the call: the Delete item of a card was chosen and confirm()
\* has returned the user's answer to the prompt.
handleTaskDelete(taskId, accepted) ==
    /\ NoneWaiting
    /\ taskId \in Shown
    /\ confirmed' = Some([id |-> taskId, accepted |-> accepted])
    /\ UNCHANGED <<db, nextId, reqs, mounted, tasks, isLoading, filters,
                   dialog, deletedOk, timeline, layout,
                   tagsForm, avatar>>

\* A handler that sends the request whatever the prompt returned.
handleTaskDeleteSendUnasked(s) ==
    /\ confirmed # None /\ FreeSlot(s)
    /\ reqs' = [reqs EXCEPT ![s] =
          [Idle EXCEPT !.kind = "DELETE", !.user = ClientUser,
              !.id = The(confirmed).id,
              !.origin = "handleTaskDelete", !.pc = "sent"]]
    /\ confirmed' = None
    /\ UNCHANGED <<db, nextId, mounted, tasks, isLoading, filters, dialog,
                   deletedOk, timeline, layout,
                   tagsForm, avatar>>

\* Lines 530-535: if (!confirm(...)) return; then the fetch, up to its
\* await.
handleTaskDeleteSend(s) ==
    /\ confirmed # None /\ FreeSlot(s)
    /\ IF The(confirmed).accepted
       THEN reqs' = [reqs EXCEPT ![s] =
               [Idle EXCEPT !.kind = "DELETE", !.user = ClientUser,
                   !.id = The(confirmed).id,
                   !.origin = "handleTaskDelete", !.pc = "sent"]]
       ELSE UNCHANGED reqs
    /\ confirmed' = None
    /\ UNCHANGED <<db, nextId, mounted, tasks, isLoading, filters, dialog,
                   deletedOk, timeline, layout,
                   tagsForm, avatar>>

\* handleTaskDelete after its await.
handleTaskDeleteDone(s) ==
    /\ NoneWaiting
    /\ reqs[s].origin = "handleTaskDelete"
    /\ \E resp \in Resumed(s) :
          /\ tasks' = IF ResponseOk(resp)
                      THEN WithoutTask(tasks, reqs[s].id)
                      ELSE tasks
          /\ deletedOk' = IF ResponseOk(resp)
                          THEN deletedOk \cup {reqs[s].id}
                          ELSE deletedOk
    /\ reqs' = [reqs EXCEPT ![s] = Idle]
    /\ UNCHANGED <<db, nextId, mounted, isLoading, confirmed, filters, dialog,
                   timeline, layout,
                   tagsForm, avatar>>

\* A map without the id test: every card takes the new status.
WithStatusOnAll(list, taskId, newStatus) ==
    [i \in 1..Len(list) |-> [list[i] EXCEPT !.status = newStatus]]

\* prevTasks.map((t) => t._id === taskId ? {...t, status: newStatus} : t)
WithStatus(list, taskId, newStatus) ==
    [i \in 1..Len(list) |->
        IF list[i].id = taskId THEN [list[i] EXCEPT !.status = newStatus]
        ELSE list[i]]

\* handleStatusChange up to its await: the card's Select chose newStatus.
handleStatusChange(s, taskId, newStatus) ==
    /\ NoneWaiting /\ FreeSlot(s)
    /\ taskId \in Shown
    /\ reqs' = [reqs EXCEPT ![s] =
          [Idle EXCEPT !.kind = "PATCH", !.user = ClientUser, !.id = taskId,
              !.body = [shape |-> "ok", status |-> newStatus,
                        items |-> None, percent |-> None],
              !.origin = "handleStatusChange", !.pc = "sent"]]
    /\ UNCHANGED <<db, nextId, view, filters, dialog, deletedOk, timeline,
                   layout,
                   tagsForm, avatar>>

\* handleStatusChange after its await.
handleStatusChangeDone(s) ==
    /\ NoneWaiting
    /\ reqs[s].origin = "handleStatusChange"
    /\ \E resp \in Resumed(s) :
          tasks' = IF ResponseOk(resp)
                   THEN WithStatus(tasks, reqs[s].id, reqs[s].body.status)
                   ELSE tasks
    /\ reqs' = [reqs EXCEPT ![s] = Idle]
    /\ UNCHANGED <<db, nextId, mounted, isLoading, confirmed, filters, dialog,
                   deletedOk, timeline, layout,
                   tagsForm, avatar>>

\* --------------------------------------------------------- TaskDialog
\* Math.round(checked / total * 100): the nearest integer, a half upwards.
Round(checked, total) == (200 * checked + total) \div (2 * total)

\* items.filter((item) => item.checked).length
CheckedCount(items) == Cardinality({i \in 1..Len(items) : items[i]})

\* Lines 89-96 of the dialog: hasChecklist and checklistProgress.
hasChecklist == Len(checklistItems) > 0

checklistProgress ==
    IF hasChecklist
    THEN Round(CheckedCount(checklistItems), Len(checklistItems))
    ELSE watchedPercent

\* Lines 719-745 of the view: the progress a card of the list shows, none
\* when the task has no item and a percent of 0.
ListProgress(task) ==
    IF Len(task.items) > 0
    THEN Some(Round(CheckedCount(task.items), Len(task.items)))
    ELSE IF task.percent > 0 THEN Some(task.percent)
    ELSE None

\* Lines 276-280 of the timeline: task.percent > 0 && <Progress
\* value={task.percent}>.
TimelineProgress(task) ==
    IF task.percent > 0 THEN Some(task.percent) ELSE None

\* ------------------------------------------------------- TimelineView
\* date-fns isSameDay: the two instants fall on the same calendar day.
isSameDay(dateLeft, dateRight) == DayOf(dateLeft) = DayOf(dateRight)

\* date-fns startOfWeek: the midnight that starts the week of the instant.
startOfWeek(date) ==
    Midnight((DayOf(date) \div DaysPerWeek) * DaysPerWeek)

\* eachDayOfInterval({start: weekStart, end: weekEnd}): the seven days of
\* the week on display, each a Date at the midnight that starts it.
days ==
    [k \in 1..DaysPerWeek |->
        startOfWeek(currentDate) + (k - 1) * TicksPerDay]

\* The filter of getTasksForDate (simple timeline, lines 51-62).
OnDate(task, date) ==
    IF IsSome(task.startAt) /\ IsSome(task.dueAt)
    THEN date >= The(task.startAt) /\ date <= The(task.dueAt)
    ELSE IF IsSome(task.dueAt) THEN isSameDay(The(task.dueAt), date)
    ELSE IF IsSome(task.startAt) THEN isSameDay(The(task.startAt), date)
    ELSE FALSE

getTasksForDate(date) ==
    LET Keep(task) == OnDate(task, date) IN SelectSeq(tasks, Keep)

\* Lines 69-72: the tasks that carry the selected tag, or all of them.
getFilteredTasks(taskList) ==
    LET Keep(task) == \E i \in 1..Len(task.tags) : task.tags[i] = selectedTag
    IN IF selectedTag = "all" THEN taskList ELSE SelectSeq(taskList, Keep)

\* The tasks of every user, filtered by tag.
personalTasksOfAll == getFilteredTasks(tasks)

\* Lines 165-172 of renderPersonalTimeline (and 549-556 of
\* renderPersonalMonthView): the session user's tasks, filtered by tag.
personalTasks ==
    LET Keep(task) == task.userId = ClientUser
    IN getFilteredTasks(SelectSeq(tasks, Keep))

\* The filter of lines 219-241 of renderPersonalTimeline.
OnDay(task, day) ==
    IF ~IsSome(task.startAt) /\ ~IsSome(task.dueAt) THEN FALSE
    ELSE IF IsSome(task.startAt) /\ IsSome(task.dueAt)
    THEN day >= The(task.startAt) /\ day <= The(task.dueAt)
    ELSE IF IsSome(task.startAt) /\ ~IsSome(task.dueAt)
    THEN isSameDay(The(task.startAt), day)
    ELSE IF ~IsSome(task.startAt) /\ IsSome(task.dueAt)
    THEN isSameDay(The(task.dueAt), day)
    ELSE FALSE

dayTasks(day) ==
    LET Keep(task) == OnDay(task, day) IN SelectSeq(personalTasks, Keep)

\* getUserColor (lines 39-57). A 32-bit integer is kept as its two 16-bit
\* halves, [hi, lo], in two's complement: the sums of the code run past
\* 2^31.
colors ==
    <<"bg-blue-500", "bg-green-500", "bg-purple-500", "bg-pink-500",
      "bg-indigo-500", "bg-yellow-500", "bg-red-500", "bg-teal-500",
      "bg-orange-500", "bg-cyan-500">>

Half == 65536
Int32Zero == [hi |-> 0, lo |-> 0]
Negative(a) == a.hi >= Half \div 2

\* a << 5.
ShiftLeft5(a) ==
    [hi |-> (a.hi * 32 + (a.lo * 32) \div Half) % Half,
     lo |-> (a.lo * 32) % Half]

\* x - y and x + code: the code adds numbers, and a & a then reduces the
\* sum to 32 bits; the reduction is taken here at each operation, which
\* gives the same 32 bits.
Minus(x, y) ==
    LET borrow == IF x.lo < y.lo THEN 1 ELSE 0
    IN  [hi |-> (x.hi + Half - y.hi - borrow) % Half,
         lo |-> (x.lo + Half - y.lo) % Half]

Plus(x, code) ==
    [hi |-> (x.hi + (x.lo + code) \div Half) % Half,
     lo |-> (x.lo + code) % Half]

\* The reduce of lines 52-55 over the characters of the id, from the left.
RECURSIVE hash(_)
hash(userId) ==
    IF userId = <<>> THEN Int32Zero
    ELSE LET a == hash(SubSeq(userId, 1, Len(userId) - 1))
         IN  Plus(Minus(ShiftLeft5(a), a), userId[Len(userId)])

\* The number |a| as [hi, lo]: a itself, or 2^32 less the halves of a
\* negative a, which is 2^31, and no 32-bit integer, for a = -2^31.
Magnitude(a) ==
    IF Negative(a) THEN Minus(Int32Zero, a) ELSE a

\* n % 10 of a number n >= 0 kept as [hi, lo]: 65536 % 10 = 6.
Remainder10(n) == ((n.hi % 10) * (Half % 10) + (n.lo % 10)) % 10

\* hash % colors.length without Math.abs: the remainder has the sign of
\* the hash.
ColorIndexSigned(a) ==
    IF Negative(a) THEN 0 - Remainder10(Magnitude(a)) ELSE Remainder10(a)

\* Math.abs(hash) % colors.length (line 56).
ColorIndex(a) == Remainder10(Magnitude(a))

\* colors[index]: undefined outside the palette.
getUserColor(userId) ==
    LET index == ColorIndex(hash(userId))
    IN  IF index \in 0..(Len(colors) - 1) THEN colors[index + 1]
        ELSE "undefined"

\* The badge of a user before it is rendered: the colour is yet to come.
Badge(userId) ==
    [userId |-> userId, rendered |-> FALSE, index |-> 0, color |-> ""]

\* The user badge is rendered (lines 201, 325, 449, 569), for the first
\* time or again.
renderAvatar ==
    /\ avatar # None
    /\ avatar' = Some([userId |-> The(avatar).userId,
                       rendered |-> TRUE,
                       index |-> ColorIndex(hash(The(avatar).userId)),
                       color |-> getUserColor(The(avatar).userId)])
    /\ UNCHANGED <<db, nextId, reqs, view, filters, dialog, deletedOk,
                   timeline, layout, tagsForm>>

\* navigateDate in week mode: subWeeks(prev, 1) or addWeeks(prev, 1).
navigateDate(direction) ==
    /\ currentDate' = IF direction = "prev"
                      THEN currentDate - DaysPerWeek * TicksPerDay
                      ELSE currentDate + DaysPerWeek * TicksPerDay
    /\ currentDate' \in Instants
    /\ UNCHANGED <<db, nextId, reqs, view, filters, dialog, deletedOk,
                   selectedTag, layout,
                   tagsForm, avatar>>

\* goToToday: setCurrentDate(new Date()).
goToToday ==
    /\ currentDate' = Now
    /\ UNCHANGED <<db, nextId, reqs, view, filters, dialog, deletedOk,
                   selectedTag, layout,
                   tagsForm, avatar>>

\* The Select of the tag filter.
setSelectedTag(tag) ==
    /\ selectedTag' = tag
    /\ UNCHANGED <<db, nextId, reqs, view, filters, dialog, deletedOk,
                   currentDate, layout,
                   tagsForm, avatar>>

\* A schema without the upper limit.
PercentValidNoMax(p) == p >= 0

\* Line 43: percent: z.number().min(0).max(100).optional()
PercentValid(p) == p >= 0 /\ p <= 100

\* The effect of lines 98-132, run when the task prop changes: the form and
\* the checklist are reset from the task, or to the defaults of a new task.
ResetForm(task) ==
    /\ checklistItems' = IF task = None THEN <<>> ELSE The(task).items
    /\ watchedPercent' = IF task = None THEN 0 ELSE The(task).percent
    /\ watchedTags' = IF task = None THEN <<>> ELSE The(task).tags

\* handleTaskEdit: the Edit button of the i-th card.
handleTaskEdit(i) ==
    /\ ~isDialogOpen
    /\ ~isLoading /\ i \in 1..Len(filteredTasks)
    /\ editingTask' = Some(filteredTasks[i])
    /\ isDialogOpen' = TRUE
    /\ ResetForm(Some(filteredTasks[i]))
    /\ UNCHANGED <<db, nextId, reqs, view, filters, deletedOk, timeline,
                   layout,
                   tagInput, avatar>>

\* The "New task" button (line 659) only opens the dialog: the task prop
\* stays null, so the effect of lines 98-132 does not run again and the
\* form, which stays mounted while the dialog is closed (lines 807-815),
\* keeps its values.
openNewTask ==
    /\ ~isDialogOpen
    /\ isDialogOpen' = TRUE
    /\ UNCHANGED <<db, nextId, reqs, view, filters, editingTask,
                   checklistItems, watchedPercent, deletedOk, timeline,
                   layout,
                   tagsForm, avatar>>

\* The task prop goes (back) to null: the effect of lines 98-132 runs, and
\* resets the form, only when the prop changes (its dependencies are
\* [task, reset]).
TaskPropCleared ==
    IF editingTask # None THEN ResetForm(None)
    ELSE UNCHANGED <<checklistItems, watchedPercent, watchedTags>>

\* onClose (lines 810-813): Cancel, or the dialog dismissed.
onClose ==
    /\ isDialogOpen
    /\ isDialogOpen' = FALSE
    /\ editingTask' = None
    /\ TaskPropCleared
    /\ UNCHANGED <<db, nextId, reqs, view, filters, deletedOk, timeline,
                   layout,
                   tagInput, avatar>>

\* addChecklistItem: a new item, unchecked, at the end.
addChecklistItem ==
    /\ isDialogOpen
    /\ Len(checklistItems) < MaxItems
    /\ checklistItems' = Append(checklistItems, FALSE)
    /\ UNCHANGED <<db, nextId, reqs, view, filters, editingTask,
                   isDialogOpen, watchedPercent, deletedOk, timeline, layout,
                   tagsForm, avatar>>

\* updateChecklistItem(id, {checked}): the checkbox of the i-th item.
updateChecklistItem(i, checked) ==
    /\ isDialogOpen
    /\ i \in 1..Len(checklistItems)
    /\ checklistItems' = [checklistItems EXCEPT ![i] = checked]
    /\ UNCHANGED <<db, nextId, reqs, view, filters, editingTask,
                   isDialogOpen, watchedPercent, deletedOk, timeline, layout,
                   tagsForm, avatar>>

\* removeChecklistItem(id): the i-th item leaves the list.
removeChecklistItem(i) ==
    /\ isDialogOpen
    /\ i \in 1..Len(checklistItems)
    /\ checklistItems' =
          [k \in 1..(Len(checklistItems) - 1) |->
              IF k < i THEN checklistItems[k] ELSE checklistItems[k + 1]]
    /\ UNCHANGED <<db, nextId, reqs, view, filters, editingTask,
                   isDialogOpen, watchedPercent, deletedOk, timeline, layout,
                   tagsForm, avatar>>

\* The percent input, rendered when the checklist is empty (line 386).
setPercent(p) ==
    /\ isDialogOpen
    /\ ~hasChecklist
    /\ watchedPercent' = p
    /\ UNCHANGED <<db, nextId, reqs, view, filters, editingTask,
                   isDialogOpen, checklistItems, deletedOk, timeline, layout,
                   tagsForm, avatar>>

\* A trim that leaves the text as it is.
trimNothing(text) == text

\* String.prototype.trim: the white space at both ends leaves the text.
RECURSIVE trim(_)
trim(text) ==
    IF text = <<>> THEN text
    ELSE IF Head(text) = " " THEN trim(Tail(text))
    ELSE IF text[Len(text)] = " " THEN trim(SubSeq(text, 1, Len(text) - 1))
    ELSE text

\* Array.prototype.includes on a list of tags.
TagsInclude(list, tag) == \E i \in 1..Len(list) : list[i] = tag

\* The tag input (lines 295-298): onChange sets tagInput.
setTagInput(text) ==
    /\ isDialogOpen
    /\ tagInput' = text
    /\ UNCHANGED <<db, nextId, reqs, view, filters, dialog, deletedOk,
                   timeline, layout, watchedTags, avatar>>

\* addTag (lines 153-158), the Add button or Enter in the tag input: the
\* trimmed text joins the tags when it is not empty and not among them, and
\* the input is cleared; nothing happens otherwise.
addTag ==
    /\ isDialogOpen
    /\ IF trim(tagInput) # <<>> /\ ~TagsInclude(watchedTags, trim(tagInput))
       THEN /\ watchedTags' = Append(watchedTags, trim(tagInput))
            /\ tagInput' = <<>>
       ELSE UNCHANGED <<watchedTags, tagInput>>
    /\ UNCHANGED <<db, nextId, reqs, view, filters, dialog, deletedOk,
                   timeline, layout, avatar>>

\* removeTag (lines 160-165), the button of a tag on display: the tags
\* equal to it leave the list.
removeTag(tagToRemove) ==
    /\ isDialogOpen
    /\ TagsInclude(watchedTags, tagToRemove)
    /\ watchedTags' = SelectSeq(watchedTags, LAMBDA tag : tag # tagToRemove)
    /\ UNCHANGED <<db, nextId, reqs, view, filters, dialog, deletedOk,
                   timeline, layout, tagInput, avatar>>

\* The form is being submitted: the Submit button is disabled.
isSubmitting == \E s \in Slots : reqs[s].origin = "onSubmit"

\* The body onSubmit sends for a new task (lines 170-180): the fields of the
\* form, the checklist, and the percent only when there is no checklist.
NewTaskData ==
    [shape |-> "ok", status |-> "backlog", title |-> DefaultTitle,
     description |-> None, startAt |-> None, dueAt |-> None,
     priority |-> "med", items |-> checklistItems,
     percent |-> IF hasChecklist THEN None ELSE Some(watchedPercent),
     tags |-> Some(watchedTags), userId |-> Absent, order |-> None]

\* onSubmit up to its await: handleSubmit has validated the form; PATCH of
\* the task being edited, POST when there is none (lines 182-183); the body
\* carries the checklist, and the percent only when there is no checklist
\* (line 175).
onSubmit(s) ==
    /\ NoneWaiting /\ FreeSlot(s)
    /\ isDialogOpen
    /\ ~isSubmitting
    /\ PercentValid(watchedPercent)
    /\ reqs' = [reqs EXCEPT ![s] =
          IF editingTask # None
          THEN [Idle EXCEPT !.kind = "PATCH", !.user = ClientUser,
                   !.id = The(editingTask).id,
                   !.body = [shape |-> "ok",
                             status |-> The(editingTask).status,
                             items |-> Some(checklistItems),
                             percent |-> IF hasChecklist THEN None
                                         ELSE Some(watchedPercent)],
                   !.origin = "onSubmit", !.pc = "sent"]
          ELSE [Idle EXCEPT !.kind = "POST", !.user = ClientUser,
                   !.body = NewTaskData, !.status = NewTaskData.status,
                   !.origin = "onSubmit", !.pc = "sent"]]
    /\ UNCHANGED <<db, nextId, view, filters, dialog, deletedOk, timeline,
                   layout,
                   tagsForm, avatar>>

\* handleTaskSave of a dialog that edits a task (lines 546-550): the saved
\* task replaces the one of its id.
WithSaved(list, savedTask) ==
    [i \in 1..Len(list) |->
        IF list[i].id = savedTask.id THEN savedTask ELSE list[i]]

\* A save that appends whatever the dialog was open for.
SavedAppended(list, resp) == Append(list, resp.result[1])

\* handleTaskSave (lines 545-552): replace when a task is being edited,
\* append otherwise. The handler that runs is the one of the render in which
\* the form was submitted; its editingTask is the task that render passed to
\* the dialog, for which onSubmit chose PATCH, or null, for which it chose
\* POST (lines 182-183).
Saved(list, resp) ==
    IF resp.kind = "PATCH" THEN WithSaved(list, resp.result[1])
    ELSE Append(list, resp.result[1])

\* onSubmit after its await, no response being lost: onSave(savedTask) when
\* response.ok, which closes the dialog.
onSubmitDone(s) ==
    /\ NoneWaiting
    /\ reqs[s].origin = "onSubmit"
    /\ \E resp \in Settled(s) :
          IF ResponseOk(resp)
          THEN /\ tasks' = Saved(tasks, resp)
               /\ isDialogOpen' = FALSE
               /\ editingTask' = None
               /\ TaskPropCleared
          ELSE UNCHANGED <<tasks, dialog, watchedTags>>
    /\ reqs' = [reqs EXCEPT ![s] = Idle]
    /\ UNCHANGED <<db, nextId, mounted, isLoading, confirmed, filters,
                   deletedOk, timeline, layout,
                   tagInput, avatar>>

\* ----------------------------------------------------------------- inputs
Queries ==
    [valid : {TRUE}, status : Statuses \cup {Absent}, q : {None},
     from : {None}, to : {None}, scope : {Absent, "all"}]
    \cup
    [valid : {FALSE}, status : {Absent}, q : {None},
     from : {None}, to : {None}, scope : {Absent}]

\* Bodies of POST: with a status or without, or not JSON, or rejected by
\* the schema.
Bodies ==
    [shape : {"ok"}, status : {Absent, "backlog", "done"},
     title : {DefaultTitle}, description : {None}, startAt : {None},
     dueAt : {None}, priority : {"med"}, items : {<<>>}, percent : {None},
     tags : {None}, userId : {Absent}, order : {None}]
    \cup
    [shape : {"malformed", "invalid"}, status : {Absent},
     title : {DefaultTitle}, description : {None}, startAt : {None},
     dueAt : {None}, priority : {"med"}, items : {<<>>}, percent : {None},
     tags : {None}, userId : {Absent}, order : {None}]

\* Bodies of PATCH: a status change, an edit of another field, or a body the
\* schema rejects.
PatchBodies ==
    [shape : {"ok"}, status : Statuses \cup {Absent}, items : {None},
     percent : {None}]
    \cup
    [shape : {"invalid"}, status : {Absent}, items : {None},
     percent : {None}]

\* What the user sends from elsewhere while the view is under study.
ViewPatchBodies ==
    [shape : {"ok"}, status : {"in_progress"}, items : {None},
     percent : {None}]

\* POST requests that have yet to insert their document.
PendingCreates ==
    Cardinality({s \in Slots : reqs[s].kind = "POST" /\ reqs[s].pc # "done"})

Init ==
    /\ db = {}
    /\ nextId = 1
    /\ reqs = [s \in Slots |-> Idle]
    /\ mounted = FALSE
    /\ tasks = <<>>
    /\ isLoading = TRUE
    /\ searchQuery = <<>>
    /\ statusFilter = "all"
    /\ priorityFilter = "all"
    /\ editingTask = None
    /\ isDialogOpen = FALSE
    /\ checklistItems = <<>>
    /\ watchedPercent = 0
    /\ deletedOk = {}
    /\ confirmed = None
    /\ currentDate = Now
    /\ selectedTag = "all"
    /\ layout = Rendered
    /\ watchedTags = <<>>
    /\ tagInput = <<>>
    /\ avatar = None

Next ==
    \/ \E s \in Slots, sess \in Sessions, query \in Queries :
          GET(s, sess, query)
    \/ \E s \in Slots, sess \in Sessions, body \in Bodies :
          /\ nextId + PendingCreates <= MaxTasks
          /\ POST(s, sess, body)
    \/ \E s \in Slots : PostCreate(s)
    \/ \E s \in Slots, sess \in Sessions, id \in Ids, body \in PatchBodies :
          PATCH(s, sess, id, body)
    \/ \E s \in Slots, sess \in Sessions, id \in Ids : DELETE(s, sess, id)
    \/ \E s \in Slots : RawReceive(s)

\* The board: the users create, move, delete and reorder tasks.
BoardBodies == {body \in Bodies : body.shape = "ok"}

BoardNext ==
    \/ \E s \in Slots, sess \in Users, body \in BoardBodies :
          /\ nextId + PendingCreates <= MaxTasks
          /\ POST(s, sess, body)
    \/ \E s \in Slots : PostCreate(s)
    \/ \E s \in Slots : RawReceive(s)
    \/ \E sess \in Users, id \in Ids, body \in ViewPatchBodies :
          PatchElsewhere(sess, id, body)
    \/ \E sess \in Users, id \in Ids : DeleteElsewhere(sess, id)
    \/ \E user \in Users, status \in Statuses :
          \E ranking \in Rankings(Column(user, status)) :
             Reorder(user, status, ranking)

\* The store the view is studied on: the view's user has posted a task,
\* then another user one, then the view's user a second, each time leaving
\* the status out.
SeedOwners == <<"u1", "u2", "u1">>

RECURSIVE Seed(_)
Seed(n) ==
    IF n = 0 THEN {}
    ELSE Seed(n - 1) \cup
         {[id |-> n, userId |-> SeedOwners[n], status |-> "backlog",
           order |-> NextOrderIn(Seed(n - 1), SeedOwners[n], "backlog"),
           title |-> DefaultTitle, description |-> None,
           startAt |-> None, dueAt |-> None, priority |-> "med",
           items |-> <<>>, percent |-> 0, tags |-> <<>>]}

SeedIds == 1..Len(SeedOwners)

ViewInit ==
    /\ db = Seed(Len(SeedOwners))
    /\ nextId = Len(SeedOwners) + 1
    /\ reqs = [s \in Slots |-> Idle]
    /\ mounted = FALSE
    /\ tasks = <<>>
    /\ isLoading = TRUE
    /\ searchQuery = <<>>
    /\ statusFilter = "all"
    /\ priorityFilter = "all"
    /\ editingTask = None
    /\ isDialogOpen = FALSE
    /\ checklistItems = <<>>
    /\ watchedPercent = 0
    /\ deletedOk = {}
    /\ confirmed = None
    /\ currentDate = Now
    /\ selectedTag = "all"
    /\ layout = Rendered
    /\ watchedTags = <<>>
    /\ tagInput = <<>>
    /\ avatar = None

\* Requests of the view that are in flight.
ViewInflight == Cardinality({s \in Slots : reqs[s].origin # "raw"})

\* The view of one user beside the requests the same user sends elsewhere.
ViewNext ==
    \/ \E id \in SeedIds, body \in ViewPatchBodies :
          PatchElsewhere(ClientUser, id, body)
    \/ \E id \in SeedIds : DeleteElsewhere(ClientUser, id)
    \/ \E s \in Slots : ServeGet(s)
    \/ \E s \in Slots : ServePatch(s)
    \/ \E s \in Slots : ServeDelete(s)
    \/ \E s \in Slots : Mount(s)
    \/ \E s \in Slots : fetchTasks(s)
    \/ \E id \in SeedIds, accepted \in BOOLEAN :
          /\ ViewInflight < MaxViewInflight
          /\ handleTaskDelete(id, accepted)
    \/ \E s \in Slots : handleTaskDeleteSend(s)
    \/ \E s \in Slots : handleTaskDeleteDone(s)
    \/ \E s \in Slots, id \in SeedIds, st \in Statuses :
          /\ ViewInflight < MaxViewInflight
          /\ handleStatusChange(s, id, st)
    \/ \E s \in Slots : handleStatusChangeDone(s)

\* A list view mounts, the all-tasks view or the timeline, beside the
\* requests its user sends elsewhere.
LoadNext ==
    \/ \E id \in SeedIds, body \in ViewPatchBodies :
          PatchElsewhere(ClientUser, id, body)
    \/ \E id \in SeedIds : DeleteElsewhere(ClientUser, id)
    \/ \E s \in Slots : Mount(s)
    \/ \E s \in Slots : MountTimeline(s)
    \/ \E s \in Slots : ServeGet(s)
    \/ \E s \in Slots : fetchTasks(s)

\* React runs the effect of a component it has rendered, and the promise of
\* fetch() settles, fulfilled or rejected, after which the rest of
\* fetchTasks runs.
LoadFairness ==
    /\ WF_vars(\E s \in Slots : Mount(s) \/ MountTimeline(s))
    /\ WF_vars(\E s \in Slots : fetchTasks(s))

SpecLoad == ViewInit /\ [][LoadNext]_vars /\ LoadFairness

\* What the user may type into the percent input.
PercentInputs == {-5, 0, 40, 150}

\* The list of the view with one task in it, fresh from a POST that gave
\* neither checklist nor percent, and the dialog closed.
ProgressInit ==
    /\ db = Seed(1)
    /\ nextId = 2
    /\ reqs = [s \in Slots |-> Idle]
    /\ mounted = TRUE
    /\ tasks = <<The(Seed(1))>>
    /\ isLoading = FALSE
    /\ searchQuery = <<>>
    /\ statusFilter = "all"
    /\ priorityFilter = "all"
    /\ editingTask = None
    /\ isDialogOpen = FALSE
    /\ checklistItems = <<>>
    /\ watchedPercent = 0
    /\ deletedOk = {}
    /\ confirmed = None
    /\ currentDate = Now
    /\ selectedTag = "all"
    /\ layout = Rendered
    /\ watchedTags = <<>>
    /\ tagInput = <<>>
    /\ avatar = None

\* The dialog at work on the tasks of the list. The user leaves the form
\* alone while a save is in flight.
ProgressNext ==
    \/ \E i \in 1..Len(tasks) : handleTaskEdit(i)
    \/ ~isSubmitting /\ onClose
    \/ ~isSubmitting /\ addChecklistItem
    \/ \E i \in 1..MaxItems, checked \in BOOLEAN :
          ~isSubmitting /\ updateChecklistItem(i, checked)
    \/ \E i \in 1..MaxItems : ~isSubmitting /\ removeChecklistItem(i)
    \/ \E p \in PercentInputs : ~isSubmitting /\ setPercent(p)
    \/ \E s \in Slots : onSubmit(s)
    \/ \E s \in Slots : ServePatch(s)
    \/ \E s \in Slots : onSubmitDone(s)

\* The dialog opened for new tasks as well as for the tasks of the list:
\* opens, edits of the form, cancels and saves in any order; the dialog may
\* be cancelled, and opened again, while a save is in flight.
DialogPercents == {0, 40}

DialogNext ==
    \/ \E i \in 1..Len(tasks) : handleTaskEdit(i)
    \/ openNewTask
    \/ onClose
    \/ ~isSubmitting /\ addChecklistItem
    \/ ~isSubmitting /\ removeChecklistItem(1)
    \/ \E p \in DialogPercents : ~isSubmitting /\ setPercent(p)
    \/ \E s \in Slots : onSubmit(s)
    \/ \E s \in Slots : ServePatch(s)
    \/ \E s \in Slots : ServePost(s)
    \/ \E s \in Slots : onSubmitDone(s)

\* Texts to search in and to search for.
SearchTitles == {DefaultTitle, <<"A", ".", "b">>, <<"b", "b", "b">>}
SearchDescriptions == {None, Some(<<>>), Some(<<"a", "b">>)}
SearchTexts == {<<>>, <<"A">>, <<"b", "c">>, <<".">>, <<"a", ".">>}
Days == 1..2
OptionalDays == {None} \cup {Some(day) : day \in Days}
Priorities == {"low", "med", "high"}

\* A task of the given owner and content, first of its column.
TaskOf(id, user, status, title, description, startAt, dueAt) ==
    [id |-> id, userId |-> user, status |-> status, order |-> 0,
     title |-> title, description |-> description,
     startAt |-> startAt, dueAt |-> dueAt, priority |-> "med",
     items |-> <<>>, percent |-> 0, tags |-> <<>>]

\* A store in which each of two users has a task of the same content.
Twins(status, title, description, startAt, dueAt) ==
    {TaskOf(1, "u1", status, title, description, startAt, dueAt),
     TaskOf(2, "u2", status, title, description, startAt, dueAt)}

\* The state of the parts that a specification leaves alone.
AtRest ==
    /\ nextId = 3
    /\ reqs = [s \in Slots |-> Idle]
    /\ mounted = TRUE
    /\ isLoading = FALSE
    /\ searchQuery = <<>>
    /\ statusFilter = "all"
    /\ priorityFilter = "all"
    /\ editingTask = None
    /\ isDialogOpen = FALSE
    /\ checklistItems = <<>>
    /\ watchedPercent = 0
    /\ deletedOk = {}
    /\ confirmed = None
    /\ currentDate = Now
    /\ selectedTag = "all"
    /\ layout = Rendered
    /\ watchedTags = <<>>
    /\ tagInput = <<>>
    /\ avatar = None

\* GET under every combination of its query parameters.
QueryInit ==
    /\ \E status \in {"backlog", "done"},
          title \in {DefaultTitle, <<"b", "b", "b">>},
          startAt \in OptionalDays, dueAt \in OptionalDays :
          db = Twins(status, title, None, startAt, dueAt)
    /\ tasks = <<>>
    /\ AtRest

AllQueries ==
    [valid : {TRUE}, status : {Absent, "backlog", "in_progress"},
     q : {None, Some(<<"b">>), Some(<<"c">>)},
     from : OptionalDays, to : OptionalDays, scope : {Absent, "all"}]

QueryNext ==
    \/ \E s \in Slots, sess \in Sessions, query \in AllQueries :
          GET(s, sess, query)
    \/ \E s \in Slots : RawReceive(s)

\* The search of the server and the search box of the view on the same
\* task, the view having loaded the list of its user.
SearchInit ==
    /\ \E title \in SearchTitles, description \in SearchDescriptions :
          /\ db = Twins("backlog", title, description, None, None)
          /\ tasks = <<TaskOf(1, ClientUser, "backlog", title, description,
                              None, None)>>
    /\ AtRest

SearchQueries ==
    [valid : {TRUE}, status : {Absent}, q : {Some(text) : text \in SearchTexts},
     from : {None}, to : {None}, scope : {Absent}]

SearchNext ==
    \/ \E s \in Slots, query \in SearchQueries : GET(s, ClientUser, query)
    \/ \E s \in Slots : RawReceive(s)
    \/ \E text \in SearchTexts : setSearchQuery(text)
    \/ \E value \in Statuses \cup {"all"} : setStatusFilter(value)
    \/ \E value \in Priorities \cup {"all"} : setPriorityFilter(value)

Spec == Init /\ [][Next]_vars
SpecQuery == QueryInit /\ [][QueryNext]_vars
SpecSearch == SearchInit /\ [][SearchNext]_vars
SpecProgress == ProgressInit /\ [][ProgressNext]_vars
SpecDialog == ProgressInit /\ [][DialogNext]_vars

\* The tags of the dialog: what the user types into the tag input, and the
\* tags a task of the list may carry.
TagInputs ==
    {<<>>, <<" ">>, <<"t">>, <<" ", "t">>, <<"t", " ">>, <<" ", "u", " ">>,
     <<"t", " ", "u">>}
StoredTags == {<<>>, << <<"t">> >>, << <<"u">>, <<"t">> >>}

TagsInit ==
    /\ \E tags \in StoredTags :
          LET task == [TaskOf(1, ClientUser, "backlog", DefaultTitle, None,
                              None, None) EXCEPT !.tags = tags]
          IN  db = {task} /\ tasks = <<task>>
    /\ AtRest

\* The dialog opened on the task or for a new one, and its tags edited.
TagsNext ==
    \/ handleTaskEdit(1)
    \/ openNewTask
    \/ onClose
    \/ \E text \in TagInputs : setTagInput(text)
    \/ Len(watchedTags) < MaxTags /\ addTag
    \/ \E i \in 1..Len(watchedTags) : removeTag(watchedTags[i])

SpecTags == TagsInit /\ [][TagsNext]_vars
\* The timeline on a list it has fetched: one task of the session user,
\* with or without a start, a due date and a tag.
OptionalInstants == {None} \cup {Some(instant) : instant \in Instants}
TagLists == {<<>>, <<"t">>}

TimelineTasks ==
    {[TaskOf(1, ClientUser, "backlog", DefaultTitle, None, startAt, dueAt)
         EXCEPT !.tags = tags] :
        startAt \in OptionalInstants, dueAt \in OptionalInstants,
        tags \in TagLists}

TimelineInit ==
    /\ \E task \in TimelineTasks :
          /\ db = {task}
          /\ tasks = <<task>>
    /\ nextId = 2
    /\ reqs = [s \in Slots |-> Idle]
    /\ mounted = TRUE
    /\ isLoading = FALSE
    /\ searchQuery = <<>>
    /\ statusFilter = "all"
    /\ priorityFilter = "all"
    /\ editingTask = None
    /\ isDialogOpen = FALSE
    /\ checklistItems = <<>>
    /\ watchedPercent = 0
    /\ deletedOk = {}
    /\ confirmed = None
    /\ currentDate = Now
    /\ selectedTag = "all"
    /\ layout = Rendered
    /\ watchedTags = <<>>
    /\ tagInput = <<>>
    /\ avatar = None

TimelineNext ==
    \/ \E direction \in {"prev", "next"} : navigateDate(direction)
    \/ goToToday
    \/ \E tag \in {"all", "t"} : setSelectedTag(tag)

SpecTimeline == TimelineInit /\ [][TimelineNext]_vars

\* User ids: the texts up to MaxIdLen characters over a few character
\* codes, "a" and "f" among them; the codes 2325, 9, 30, 12, 2 in this order
\* sum to 2^31.
CharCodes == {97, 102, 2325, 9, 30, 12, 2}
RECURSIVE IdsOfLen(_)
IdsOfLen(n) ==
    IF n = 0 THEN {<<>>}
    ELSE {Append(id, code) : id \in IdsOfLen(n - 1), code \in CharCodes}
UserIdsUpTo(len) == UNION {IdsOfLen(n) : n \in 0..len}

\* Everything at rest but the badge, which is the one of any user.
ColorInit ==
    /\ db = {}
    /\ tasks = <<>>
    /\ nextId = 1
    /\ reqs = [s \in Slots |-> Idle]
    /\ mounted = TRUE
    /\ isLoading = FALSE
    /\ searchQuery = <<>>
    /\ statusFilter = "all"
    /\ priorityFilter = "all"
    /\ editingTask = None
    /\ isDialogOpen = FALSE
    /\ checklistItems = <<>>
    /\ watchedPercent = 0
    /\ deletedOk = {}
    /\ confirmed = None
    /\ currentDate = Now
    /\ selectedTag = "all"
    /\ layout = Rendered
    /\ watchedTags = <<>>
    /\ tagInput = <<>>
    /\ avatar \in {Some(Badge(userId)) : userId \in UserIdsUpTo(MaxIdLen)}

ColorNext == renderAvatar

SpecColor == ColorInit /\ [][ColorNext]_vars

\* The personal timeline over the tasks of two users (the view fetches
\* with scope=all), tagged in several ways; one task may carry a tag that
\* is called "all".
PersonalTagLists == {<<>>, <<"t">>, <<"u", "t">>, <<"all">>}
PersonalTags == {"all", "t", "u"}

PersonalTask(id, user, tags) ==
    [TaskOf(id, user, "backlog", DefaultTitle, None, Some(Midnight(1)),
            Some(Midnight(2))) EXCEPT !.tags = tags]

PersonalInit ==
    /\ \E owner1 \in Users, owner2 \in Users,
          tags1 \in PersonalTagLists, tags2 \in PersonalTagLists :
          /\ tasks = <<PersonalTask(1, owner1, tags1),
                       PersonalTask(2, owner2, tags2)>>
          /\ db = {tasks[1], tasks[2]}
    /\ AtRest

PersonalNext ==
    \/ \E direction \in {"prev", "next"} : navigateDate(direction)
    \/ goToToday
    \/ \E tag \in PersonalTags : setSelectedTag(tag)

SpecPersonal == PersonalInit /\ [][PersonalNext]_vars
\* The app from the first request of a page on: the store is the seeded
\* one, and AllTasksView is the page the layout wraps.
LayoutInit ==
    /\ db = Seed(Len(SeedOwners))
    /\ nextId = Len(SeedOwners) + 1
    /\ reqs = [s \in Slots |-> Idle]
    /\ mounted = FALSE
    /\ tasks = <<>>
    /\ isLoading = TRUE
    /\ searchQuery = <<>>
    /\ statusFilter = "all"
    /\ priorityFilter = "all"
    /\ editingTask = None
    /\ isDialogOpen = FALSE
    /\ checklistItems = <<>>
    /\ watchedPercent = 0
    /\ deletedOk = {}
    /\ confirmed = None
    /\ currentDate = Now
    /\ selectedTag = "all"
    /\ layout = NotAsked
    /\ watchedTags = <<>>
    /\ tagInput = <<>>
    /\ avatar = None

LayoutNext ==
    \/ \E sess \in ClientSessions : AppLayout(sess)
    \/ ViewNext

SpecLayout == LayoutInit /\ [][LayoutNext]_vars
\* Bodies of POST that may name an owner and an order of their own.
CreateBodies ==
    {[body EXCEPT !.userId = userId, !.order = order] :
        body \in BoardBodies, userId \in {Absent, "u2"},
        order \in {None, Some(7)}}

\* Create requests alone, of either user, overlapping as they may.
CreateNext ==
    \/ \E s \in Slots, sess \in Users, body \in CreateBodies :
          /\ nextId + PendingCreates <= MaxTasks
          /\ POST(s, sess, body)
    \/ \E s \in Slots : PostCreate(s)
    \/ \E s \in Slots : RawReceive(s)

SpecCreate == Init /\ [][CreateNext]_vars
SpecBoard == Init /\ [][BoardNext]_vars
SpecView == ViewInit /\ [][ViewNext]_vars

\* ================================================================ claims
\* A response that waits in its slot for its caller.
Answered(s) == reqs[s].kind # "idle" /\ reqs[s].pc = "done"

\* The user's documents of the column of d, d aside.
ColumnBeside(d) ==
    {e \in db : e.userId = d.userId /\ e.status = d.status /\ e.id # d.id}

\* C1: the task a POST has created (201) has the status the payload asked
\* for, backlog when it left the status out, and its order is one plus the
\* largest order among the user's other tasks of that status, 0 when there
\* is none.
C1_CreatedStatusAndOrder ==
    \A s \in Slots :
        (Answered(s) /\ reqs[s].kind = "POST" /\ reqs[s].code = 201) =>
            LET d == reqs[s].result[1]
            IN /\ d \in db
               /\ d.status = IF reqs[s].status = Absent THEN "backlog"
                             ELSE reqs[s].status
               /\ IF ColumnBeside(d) = {} THEN d.order = 0
                  ELSE /\ \E e \in ColumnBeside(d) : d.order = e.order + 1
                       /\ \A e \in ColumnBeside(d) : e.order < d.order

\* C3: a GET or POST without a session user is answered 401, and its run has
\* neither read nor written the store.
C3_NoSessionNoStore ==
    \A s \in Slots :
        (Answered(s) /\ reqs[s].kind \in {"GET", "POST"}
            /\ reqs[s].user = NoUser) =>
            /\ reqs[s].code = 401
            /\ reqs[s].reads = 0 /\ reqs[s].writes = 0
            /\ reqs[s].result = <<>>

C3_Witness ==
    \E s \in Slots :
        /\ Answered(s) /\ reqs[s].kind = "POST" /\ reqs[s].user = NoUser
        /\ reqs[s].code = 401 /\ db # {}

\* The input of the request in slot s fails validation.
InputInvalid(s) ==
    \/ reqs[s].kind = "GET" /\ ~reqs[s].query.valid
    \/ reqs[s].kind \in {"POST", "PATCH"} /\ reqs[s].body.shape # "ok"

\* C4: an authenticated request whose input fails validation is answered 400
\* with the per-field errors, and has written nothing.
C4_InvalidInputIs400 ==
    \A s \in Slots :
        (Answered(s) /\ reqs[s].user # NoUser /\ InputInvalid(s)) =>
            /\ reqs[s].code = 400
            /\ reqs[s].errors
            /\ reqs[s].writes = 0

C10_TypeOK ==
    /\ \A d \in db : d.userId \in Users /\ d.status \in Statuses
    /\ \A d, e \in db : d.id = e.id => d = e

C10_OwnerKept ==
    \A d \in db : \A e \in db' : d.id = e.id => d.userId = e.userId

\* C10: every task has one owner, a user, and one status of the three; no
\* two documents share an id; and no step (create, status change, field
\* edit, delete of another task) changes the owner of a task.
C10_OneOwnerOneStatus == [](C10_TypeOK) /\ [][C10_OwnerKept]_vars

C10_Witness ==
    \E s \in Slots :
        /\ Answered(s) /\ reqs[s].kind = "PATCH" /\ reqs[s].code = 200
        /\ reqs[s].prev # reqs[s].result[1].status
        /\ \E d \in db : d.userId # reqs[s].user

\* The ids in the store and in the local list of the view.
DbIds == {d.id : d \in db}
LocalIds == {tasks[i].id : i \in 1..Len(tasks)}

\* The handler of the view's request in slot s has run in this step and
\* answered 200.
Served(s, kind) ==
    /\ reqs[s].kind = kind /\ reqs[s].pc = "sent"
    /\ reqs'[s].pc = "done" /\ reqs'[s].code = 200

C7_Gone ==
    /\ deletedOk \cap LocalIds = {}
    /\ deletedOk \cap DbIds = {}

C7_Step ==
    /\ DbIds' \subseteq DbIds
    /\ \A s \in Slots :
          Served(s, "GET") =>
             \A i \in 1..Len(reqs'[s].result) :
                /\ reqs'[s].result[i] \in db
                /\ reqs'[s].result[i].userId = reqs'[s].user
    /\ \A s \in Slots :
          Served(s, "DELETE") =>
             /\ reqs[s].id \notin DbIds'
             /\ \A d \in db : d.id # reqs[s].id => d \in db'
    /\ \A d \in db : d.userId # ClientUser => d \in db'

\* C7: a task whose delete the view has seen succeed is in no list from then
\* on: not in the view's local list, not in the store, so in no result a GET
\* served later returns (a result holds documents of the store, and an id
\* that left the store never returns); the tasks of other users stay as
\* they are.
C7_DeletedStaysGone == [](C7_Gone) /\ [][C7_Step]_vars

C7_Witness ==
    /\ deletedOk # {}
    /\ tasks # <<>>
    /\ \E d \in db : d.userId # ClientUser

C9_Statuses ==
    /\ Cardinality(Statuses) = 3
    /\ \A d \in db : d.status \in Statuses
    /\ \A i \in 1..Len(tasks) : tasks[i].status \in Statuses
    /\ (NoneWaiting /\ ViewInflight < MaxViewInflight) =>
          \A id \in Shown, st \in Statuses :
             \E s \in Slots : ENABLED handleStatusChange(s, id, st)

C9_Step ==
    /\ \A d \in db, e \in db' :
          (d.id = e.id /\ d.status # e.status) =>
             \/ \E s \in Slots :
                   /\ Served(s, "PATCH")
                   /\ reqs[s].id = d.id /\ reqs[s].body.status = e.status
             \/ /\ reqs' = reqs /\ tasks' = tasks
                /\ d.userId = ClientUser
                /\ \E body \in ViewPatchBodies : e = PatchDoc(d, body)
    /\ \A i \in 1..Len(tasks), j \in 1..Len(tasks') :
          (tasks[i].id = tasks'[j].id
              /\ tasks[i].status # tasks'[j].status) =>
             \E s \in Slots :
                /\ reqs[s].origin = "handleStatusChange"
                /\ reqs[s].pc = "done" /\ reqs[s].code = 200
                /\ reqs[s].id = tasks[i].id
                /\ reqs[s].body.status = tasks'[j].status
                /\ reqs'[s].kind = "idle"

\* C9: a status is one of three values; the Select of a card offers each of
\* them whatever the status of the card, so no status is terminal; and the
\* status of a task changes, in the store and in the local list, only by a
\* status change a user has asked for, to the status asked for.
C9_StatusMachine == [](C9_Statuses) /\ [][C9_Step]_vars

C9_Witness ==
    \E s \in Slots :
        /\ reqs[s].origin = "handleStatusChange"
        /\ reqs[s].pc = "done" /\ reqs[s].code = 200
        /\ reqs[s].prev = "done" /\ reqs[s].body.status = "backlog"

\* An indicator that is not shown stands at 0.
Value(shown) == IF shown = None THEN 0 ELSE The(shown)

\* clamp to [0, 100]
Clamp(p) == IF p < 0 THEN 0 ELSE IF p > 100 THEN 100 ELSE p

\* round(100 * checked / total) of a checklist.
Derived(items) == Round(CheckedCount(items), Len(items))

\* C5: a task with a checklist shows round(100 * checked / total) as its
\* progress in the dialog, on its card of the list and in the timeline,
\* whatever percent is stored.
C5_ChecklistProgressEverywhere ==
    /\ (isDialogOpen /\ hasChecklist) =>
          checklistProgress = Derived(checklistItems)
    /\ \A i \in 1..Len(tasks) :
          Len(tasks[i].items) > 0 =>
             Value(ListProgress(tasks[i])) = Derived(tasks[i].items)
    /\ \A d \in db :
          Len(d.items) > 0 => Value(TimelineProgress(d)) = Derived(d.items)

\* C6: a task without checklist shows its percent clamped to 0..100 (below 0
\* as 0, above 100 as 100, in range as it is) on its card of the list, in
\* the timeline and in the dialog.
C6_PercentShownClamped ==
    /\ \A i \in 1..Len(tasks) :
          Len(tasks[i].items) = 0 =>
             Value(ListProgress(tasks[i])) = Clamp(tasks[i].percent)
    /\ \A d \in db :
          Len(d.items) = 0 => Value(TimelineProgress(d)) = Clamp(d.percent)
    /\ (isDialogOpen /\ ~hasChecklist) =>
          checklistProgress = Clamp(watchedPercent)

Occurs(q, text) == Includes(LowerStr(text), LowerStr(q))

\* The task matches q: q occurs in its title, or in its description when it
\* has one.
Matches(q, task) ==
    \/ Occurs(q, task.title)
    \/ (Truthy(task.description) /\ Occurs(q, The(task.description)))

\* The search box keeps exactly the tasks that match its text.
C8_SearchBox ==
    \A i \in 1..Len(tasks) :
        (statusFilter = "all" /\ priorityFilter = "all") =>
            ((\E j \in 1..Len(filteredTasks) : filteredTasks[j] = tasks[i])
                <=> Matches(searchQuery, tasks[i]))

\* C8: the search of the server (q) and the search box of the view keep a
\* task exactly when q occurs, case ignored, as a literal substring in its
\* title or in its description; a task without description is matched on
\* its title alone.
C8_LiteralSubstring ==
    /\ C8_SearchBox
    /\ \A s \in Slots :
          (Answered(s) /\ reqs[s].kind = "GET" /\ reqs[s].code = 200
              /\ IsSome(reqs[s].query.q)) =>
             \A d \in db :
                d.userId = reqs[s].user =>
                   ((\E i \in 1..Len(reqs[s].result) : reqs[s].result[i] = d)
                       <=> Matches(The(reqs[s].query.q), d))

\* ------------------------------------------------------------------ C11
\* The slot holds a request of the view that was answered with a status of
\* 200 to 299, and this step resumes its handler.
ResumesOk(s, origins) ==
    /\ reqs[s].origin \in origins
    /\ reqs[s].pc = "done"
    /\ reqs[s].code >= 200 /\ reqs[s].code <= 299
    /\ reqs'[s] = Idle

\* C11: the all-tasks view changes its local task list only in a step that
\* resumes one of its handlers with a successful response; sending the
\* delete or the status change, a response that is not OK and a fetch that
\* throws all leave the list as it is.
C11_ListChangesOnlyAfterOk ==
    [][tasks' # tasks =>
          \E s \in Slots :
             ResumesOk(s, {"fetchTasks", "handleTaskDelete",
                           "handleStatusChange"})]_vars

\* The status change was answered 200 and its handler has not resumed: the
\* list still shows the old status.
C11_Witness ==
    \E s \in Slots :
       /\ reqs[s].origin = "handleStatusChange"
       /\ reqs[s].pc = "done" /\ reqs[s].code = 200
       /\ \E i \in 1..Len(tasks) :
             /\ tasks[i].id = reqs[s].id
             /\ tasks[i].status # reqs[s].body.status

\* ------------------------------------------------------------------ C12
\* This step answers the POST in slot s.
PostAnswers(s) ==
    /\ reqs'[s].kind = "POST" /\ reqs'[s].pc = "done"
    /\ reqs[s] # reqs'[s]

\* The POST in slot s had a session and a body the schema accepts.
PostAccepted(s) ==
    /\ reqs'[s].user # NoUser
    /\ reqs'[s].body.shape = "ok"

C12_Step ==
    \A s \in Slots :
       /\ PostAnswers(s) =>
             /\ reqs'[s].code \in {201, 400, 401, 500}
             /\ reqs'[s].code = 201 =>
                   /\ reqs'[s].result[1] \notin db
                   /\ db' = db \cup {reqs'[s].result[1]}
             /\ reqs'[s].code # 201 =>
                   /\ db' = db
                   /\ reqs'[s].writes = 0
             /\ reqs'[s].code = 500 => ~reqs'[s].errors
             /\ (PostAccepted(s) /\ db' = db) => reqs'[s].code = 500
             /\ reqs'[s].body.shape = "malformed" =>
                   reqs'[s].code \in {401, 500}
       /\ (reqs'[s].pc = "create" /\ reqs[s] # reqs'[s]) => db' = db

\* C12: a POST /api/tasks is answered 201 and has stored exactly its one
\* task, or is answered 400, 401 or 500 and has stored nothing; a store or
\* runtime error in a request with a session and a valid body is answered
\* 500 without field errors.
C12_PostAllOrNothing == [][C12_Step]_vars

\* Task.create failed after the findOne had succeeded: 500, nothing written.
C12_Witness ==
    \E s \in Slots :
       /\ reqs[s].kind = "POST" /\ reqs[s].pc = "done"
       /\ reqs[s].code = 500 /\ reqs[s].reads = 1 /\ reqs[s].writes = 0

\* ------------------------------------------------------------------ C13
\* C13: when the store has so far created exactly one task, for a user who
\* had none, and that user then fetches the list without a filter, the
\* answer holds exactly that one task, with order 0, percent 0 and no tag.
C13_FirstTaskListed ==
    \A s \in Slots :
       ( /\ reqs[s].kind = "GET" /\ Answered(s) /\ reqs[s].code = 200
         /\ reqs[s].query.status = Absent
         /\ nextId = 2
         /\ \E d \in db : d.userId = reqs[s].user )
       => /\ Len(reqs[s].result) = 1
          /\ reqs[s].result[1] \in db
          /\ reqs[s].result[1].userId = reqs[s].user
          /\ reqs[s].result[1].order = 0
          /\ reqs[s].result[1].percent = 0
          /\ reqs[s].result[1].tags = <<>>

\* The list fetched after the first task was created with status backlog.
C13_Witness ==
    \E s \in Slots :
       /\ reqs[s].kind = "GET" /\ Answered(s) /\ reqs[s].code = 200
       /\ reqs[s].query.status = Absent
       /\ nextId = 2
       /\ Len(reqs[s].result) = 1
       /\ reqs[s].result[1].status = "backlog"
       /\ reqs[s].result[1].title = DefaultTitle

\* ------------------------------------------------------------------ C14
\* This step puts a DELETE request of the view in slot s.
DeleteSent(s) ==
    /\ reqs'[s].origin = "handleTaskDelete"
    /\ reqs[s].origin # "handleTaskDelete"

C14_Step ==
    /\ \A s \in Slots :
          DeleteSent(s) =>
             /\ confirmed = Some([id |-> reqs'[s].id, accepted |-> TRUE])
             /\ reqs'[s].kind = "DELETE" /\ reqs'[s].pc = "sent"
    /\ (confirmed # None /\ ~The(confirmed).accepted) =>
          /\ reqs' = reqs
          /\ tasks' = tasks
          /\ db' = db

\* C14: the view sends a DELETE request for a task only in the step after
\* confirm() has returned true for that task; after confirm() has returned
\* false the handler returns with no request sent, and the local list and
\* the store are as they were.
C14_DeleteOnlyOnceConfirmed == [][C14_Step]_vars

\* confirm() has returned false for a task that is listed and stored, with
\* nothing in flight.
C14_Witness ==
    /\ confirmed # None /\ ~The(confirmed).accepted
    /\ The(confirmed).id \in LocalIds \cap DbIds
    /\ \A s \in Slots : reqs[s].kind = "idle"

\* ------------------------------------------------------------------ C15
\* This step sends the request of a submitted dialog from slot s.
SubmitSent(s) ==
    /\ reqs'[s].origin = "onSubmit"
    /\ reqs[s].origin # "onSubmit"

\* The checklist a request of the dialog carries: PATCH bodies hold optional
\* fields, POST bodies the list itself.
SentItems(r) == IF r.kind = "PATCH" THEN The(r.body.items) ELSE r.body.items

C15_Step ==
    \A s \in Slots :
       SubmitSent(s) =>
          /\ SentItems(reqs'[s]) = checklistItems
          /\ checklistItems # <<>> => reqs'[s].body.percent = None
          /\ checklistItems = <<>> =>
                /\ reqs'[s].body.percent = Some(watchedPercent)
                /\ watchedPercent >= 0 /\ watchedPercent <= 100

\* C15: a submitted dialog sends its checklist; with a checklist that is
\* not empty the request carries no percent, with an empty one it carries
\* the percent of the form, which is between 0 and 100.
C15_PercentOnlyWithoutChecklist == [][C15_Step]_vars

\* A request sent with a checklist and no percent while the form still
\* holds the percent typed before the first item was added.
C15_Witness ==
    \E s \in Slots :
       /\ reqs[s].origin = "onSubmit" /\ reqs[s].kind = "PATCH"
       /\ reqs[s].body.items # Some(<<>>)
       /\ reqs[s].body.percent = None
       /\ watchedPercent = 40

\* ------------------------------------------------------------------ C16
\* The request in slot s has passed the session check and the validation
\* of its input.
ChecksPassed(s) ==
    /\ reqs[s].user # NoUser
    /\ ~InputInvalid(s)

C16_Order ==
    \A s \in Slots :
       reqs[s].kind \in {"GET", "POST"} =>
          /\ (reqs[s].reads > 0 \/ reqs[s].writes > 0
                 \/ reqs[s].pc = "create") => ChecksPassed(s)
          /\ reqs[s].writes > 0 => reqs[s].reads > 0
          /\ reqs[s].user = NoUser => reqs[s].code = 401
          /\ reqs[s].pc = "done" =>
                reqs[s].code \in {200, 201, 400, 401, 500}
          /\ reqs[s].pc # "done" => reqs[s].code = 0

C16_Step ==
    \A s \in Slots :
       /\ (reqs[s].kind \in {"GET", "POST"} /\ reqs[s].pc = "done") =>
             reqs'[s] \in {reqs[s], Idle}
       /\ (reqs'[s].kind \in {"GET", "POST"} /\ reqs'[s] # reqs[s]
              /\ reqs'[s].writes = 0) => db' = db

\* C16: a GET or POST /api/tasks handler touches the document store only
\* after the session check and then the validation of the input have both
\* passed, a POST writes only after its read, and the handler ends with
\* exactly one response, which is not replaced afterwards.
C16_ChecksBeforeStore == []C16_Order /\ [][C16_Step]_vars

\* A POST rejected by the schema beside a store that holds tasks: answered
\* 400 without a read or a write.
C16_Witness ==
    \E s \in Slots :
       /\ reqs[s].kind = "POST" /\ Answered(s)
       /\ reqs[s].user # NoUser /\ reqs[s].body.shape = "invalid"
       /\ reqs[s].code = 400 /\ reqs[s].reads = 0
       /\ db # {}

\* ------------------------------------------------------------------ C17
\* The status the local list shows for task id.
LocalStatus(id) ==
    {tasks[i].status : i \in {j \in 1..Len(tasks) : tasks[j].id = id}}

\* A status change of the view is in flight for a task its user still owns.
PatchPending(s) ==
    /\ reqs[s].kind = "PATCH" /\ reqs[s].pc = "sent"
    /\ \E d \in db : d.id = reqs[s].id /\ d.userId = reqs[s].user

C17_NoConflict ==
    \A s \in Slots :
       /\ reqs[s].code \in {0, 200, 201, 400, 401, 404, 500}
       /\ PatchPending(s) =>
             /\ PatchCode(reqs[s], TRUE) = 200
             /\ NoneWaiting => ENABLED ServePatch(s)

C17_Step ==
    \A s \in Slots :
       (PatchPending(s) /\ reqs'[s].kind = "PATCH"
           /\ reqs'[s].pc = "done") =>
          /\ reqs'[s].code = 200
          /\ \A d \in db :
                d.id = reqs[s].id =>
                   /\ [d EXCEPT !.status = reqs[s].body.status] \in db'
                   /\ \A e \in db' : e.id = d.id =>
                         e.status = reqs[s].body.status
                   /\ reqs'[s].prev = d.status
          /\ \A d \in db : d.id # reqs[s].id => d \in db'

\* C17: a status change that reaches the store while its task is still
\* there is applied and answered 200 whatever was written to that task
\* since the sender read it: no write is refused as a conflict, and after
\* each write the stored task has the status of that write.
C17_LastWriteWins == []C17_NoConflict /\ [][C17_Step]_vars

\* The view asked for done on a task it lists as backlog, another client
\* had moved the task to in_progress meanwhile, and the view's write was
\* applied on top: the stored task is done.
C17_Witness ==
    \E s \in Slots :
       /\ reqs[s].origin = "handleStatusChange"
       /\ reqs[s].pc = "done" /\ reqs[s].code = 200
       /\ reqs[s].body.status = "done"
       /\ reqs[s].prev = "in_progress"
       /\ LocalStatus(reqs[s].id) = {"backlog"}
       /\ \E d \in db : d.id = reqs[s].id /\ d.status = "done"

\* ------------------------------------------------------------------ C18
\* The orders of a column are 0..n-1, each once.
Contiguous(col) ==
    /\ {d.order : d \in col} = 0..(Cardinality(col) - 1)
    /\ \A d, e \in col : d.order = e.order => d = e

C18_Step ==
    \A d \in db, e \in db' :
       (d.id = e.id /\ d.order # e.order) =>
          LET after == {x \in db' : x.userId = e.userId
                                     /\ x.status = e.status}
          IN /\ e = [d EXCEPT !.order = e.order]
             /\ Contiguous(after)
             /\ {x.id : x \in Column(d.userId, d.status)}
                   = {x.id : x \in after}

\* C18: a step that changes the order of a stored task is a reordering of
\* its column: it changes nothing else of the task and moves no task in or
\* out of the column, and afterwards the orders of the user's tasks in that
\* column are exactly 0..n-1, with no gap and no duplicate.
C18_ReorderRenumbers == [][C18_Step]_vars

\* The first two tasks ever created share a column of one user, the second
\* ranked before the first: the column has been reordered.
C18_Witness ==
    \E d, e \in db :
       /\ d.id = 1 /\ e.id = 2
       /\ d.userId = e.userId /\ d.status = e.status
       /\ e.order = 0 /\ d.order = 1

\* ------------------------------------------------------------------ C19
\* The calendar days the claim gives a task: from the day of its start
\* through the day of its due date, or the day of the one date it has.
ClaimedDays(task) ==
    IF IsSome(task.startAt) /\ IsSome(task.dueAt)
    THEN DayOf(The(task.startAt))..DayOf(The(task.dueAt))
    ELSE IF IsSome(task.startAt) THEN {DayOf(The(task.startAt))}
    ELSE IF IsSome(task.dueAt) THEN {DayOf(The(task.dueAt))}
    ELSE {}

\* The list holds the task.
Holds(list, task) == \E i \in 1..Len(list) : list[i] = task

\* C19: on every day of the week on display, the personal timeline and the
\* simple timeline show a task exactly when that day is one of the calendar
\* days from the day of its start through the day of its due date, or the
\* day of its only date; a task without dates is shown on no day.
C19_ShownOnItsDays ==
    \A k \in 1..DaysPerWeek :
       /\ \A i \in 1..Len(tasks) :
             Holds(getTasksForDate(days[k]), tasks[i])
                <=> DayOf(days[k]) \in ClaimedDays(tasks[i])
       /\ \A i \in 1..Len(personalTasks) :
             Holds(dayTasks(days[k]), personalTasks[i])
                <=> DayOf(days[k]) \in ClaimedDays(personalTasks[i])

\* ------------------------------------------------------------------ C20
C20_Rendered ==
    /\ layout.children => layout.session # NoUser /\ layout.location = "/app"
    /\ (layout # NotAsked /\ layout.session = NoUser) =>
          /\ layout.location = "/login"
          /\ ~layout.children
    /\ ~layout.children =>
          /\ ~mounted /\ tasks = <<>>
          /\ \A s \in Slots : reqs[s].kind = "idle"

C20_Step ==
    /\ (layout'.children /\ ~layout.children) => layout'.session \in Users
    /\ (mounted' /\ ~mounted) => layout.children

\* C20: the layout renders its children only for a request with a session;
\* for one without a session it redirects to /login and renders none: the
\* page it wraps is not mounted, holds no task and has sent no request.
C20_ChildrenOnlyWithSession == []C20_Rendered /\ [][C20_Step]_vars

\* A page of the app was asked for without a session beside a store that
\* holds the user's tasks: redirected to /login, nothing mounted.
C20_Witness ==
    /\ layout.location = "/login" /\ layout.session = NoUser
    /\ ~layout.children /\ ~mounted
    /\ \E d \in db : d.userId = ClientUser

\* ------------------------------------------------------------------ C21
\* C21: when the only requests are creates, overlapping in any way, no two
\* tasks of one user in one status column have the same order.
C21_OrdersDistinct ==
    \A d, e \in db :
       (d.userId = e.userId /\ d.status = e.status /\ d.order = e.order)
          => d = e

\* ------------------------------------------------------------------ C22
C22_Created ==
    \A s \in Slots :
       (reqs[s].kind = "POST" /\ Answered(s) /\ reqs[s].code = 201) =>
          /\ reqs[s].result[1].userId = reqs[s].user
          /\ reqs[s].result[1].order = reqs[s].order
          /\ reqs[s].result[1] \in db

C22_Step ==
    \A s \in Slots :
       /\ (reqs'[s].kind = "POST" /\ reqs'[s].pc = "create"
              /\ reqs[s] # reqs'[s]) =>
             reqs'[s].order = NextOrder(reqs'[s].user, reqs'[s].body.status)
       /\ \A d \in db' \ db :
             (reqs[s].pc = "create" /\ reqs'[s].pc = "done") =>
                /\ d.userId = reqs[s].user
                /\ d.order = reqs[s].order

\* C22: the owner of a created task is the session user and its order is
\* the one the handler computed from the column, whatever userId or order
\* the body of the request names.
C22_OwnerAndOrderFromServer == []C22_Created /\ [][C22_Step]_vars

\* A task created by u1 from a body that names u2 as its owner and 7 as
\* its order.
C22_Witness ==
    \E s \in Slots :
       /\ reqs[s].kind = "POST" /\ Answered(s) /\ reqs[s].code = 201
       /\ reqs[s].user = "u1"
       /\ reqs[s].body.userId = "u2" /\ reqs[s].body.order = Some(7)
       /\ reqs[s].result[1].userId = "u1"
       /\ reqs[s].result[1].order = 0

\* ------------------------------------------------ the dialog for new tasks
\* The dialog opens with no task passed.
C23_Step ==
    (~isDialogOpen /\ isDialogOpen' /\ editingTask' = None) =>
       (checklistItems' = <<>> /\ watchedPercent' = 0)

\* C23: whenever the dialog is opened with no task passed, the form shows
\* the defaults of a new task (of the fields the model keeps: percent 0 and
\* an empty checklist), whatever opens, edits, submissions and cancels came
\* before.
C23_NewTaskFormShowsDefaults == [][C23_Step]_vars

\* ------------------------------------------------------ the order of GET
\* The status values in ascending (alphabetical) order.
C24_Ascending == <<"backlog", "done", "in_progress">>
C24_Place(status) == CHOOSE i \in 1..Len(C24_Ascending) :
                        C24_Ascending[i] = status

\* C24: a GET answered 200 returns the tasks that match its filter, each
\* once, sorted by status ascending and, among tasks of equal status, by
\* order ascending.
C24_SortedByStatusThenOrder ==
    \A s \in Slots :
       (Answered(s) /\ reqs[s].kind = "GET" /\ reqs[s].code = 200) =>
          LET r == reqs[s].result
          IN  /\ {r[i] : i \in 1..Len(r)} =
                    {d \in db : MatchFilter(reqs[s].user, reqs[s].query, d)}
              /\ \A i, j \in 1..Len(r) :
                    i < j =>
                       /\ r[i] # r[j]
                       /\ C24_Place(r[i].status) <= C24_Place(r[j].status)
                       /\ r[i].status = r[j].status =>
                             r[i].order <= r[j].order

\* A response with two tasks of different statuses, the first of them with
\* an order that is not the lower one.
C24_Witness ==
    \E s \in Slots :
       /\ Answered(s) /\ reqs[s].kind = "GET" /\ reqs[s].code = 200
       /\ Len(reqs[s].result) = 2
       /\ reqs[s].result[1].status # reqs[s].result[2].status
       /\ reqs[s].result[1].order >= reqs[s].result[2].order

\* ------------------------------------------------- the date range of GET
\* The tasks the query would return were it to name no dates.
C25_Candidates(r) ==
    {d \in db : MatchFilter(r.user, [r.query EXCEPT !.from = None,
                                                    !.to = None], d)}

Returned(r, d) == \E i \in 1..Len(r.result) : r.result[i] = d

\* The interval [startAt, dueAt] of the task and [from, to] share a point.
Intersects(d, from, to) ==
    \E t \in The(d.startAt)..The(d.dueAt) : from <= t /\ t <= to

C25_Range(r) ==
    \A d \in C25_Candidates(r) :
       /\ (/\ IsSome(r.query.from) /\ IsSome(r.query.to)
           /\ IsSome(d.startAt) /\ IsSome(d.dueAt)
           /\ The(d.startAt) <= The(d.dueAt)) =>
             (Returned(r, d) <=>
                 Intersects(d, The(r.query.from), The(r.query.to)))
       /\ (/\ IsSome(r.query.from) \/ IsSome(r.query.to)
           /\ d.startAt = None /\ d.dueAt = None) => ~Returned(r, d)

\* C25: with from and to both supplied, a task with both dates, startAt not
\* after dueAt, is returned exactly when [startAt, dueAt] intersects
\* [from, to]; a task with neither date is never returned when from or to
\* is supplied.
C25_ReturnedIffIntersects ==
    \A s \in Slots :
       (Answered(s) /\ reqs[s].kind = "GET" /\ reqs[s].code = 200) =>
          C25_Range(reqs[s])

\* ------------------------------------------------- the tags of the dialog
Blank(text) == \A i \in 1..Len(text) : text[i] = " "
Trimmed(text) == text # <<>> /\ Head(text) # " " /\ text[Len(text)] # " "

\* The tags are a set: no duplicate, no blank tag, every tag trimmed.
C26_TagSet ==
    /\ \A i, j \in 1..Len(watchedTags) :
          i # j => watchedTags[i] # watchedTags[j]
    /\ \A i \in 1..Len(watchedTags) :
          ~Blank(watchedTags[i]) /\ Trimmed(watchedTags[i])

\* The text without the white space around it.
Stripped(text, core) ==
    \E i, j \in 0..Len(text) :
       /\ i + Len(core) + j = Len(text)
       /\ Blank(SubSeq(text, 1, i))
       /\ core = SubSeq(text, i + 1, i + Len(core))
       /\ Blank(SubSeq(text, Len(text) - j + 1, Len(text)))

\* A step of the open dialog that changes its tags: one tag is added at
\* the end, which is the text of the input stripped, or one tag leaves and
\* the others keep their places.
C26_Step ==
    (isDialogOpen /\ isDialogOpen' /\ watchedTags' # watchedTags) =>
       \/ /\ Len(watchedTags') = Len(watchedTags) + 1
          /\ SubSeq(watchedTags', 1, Len(watchedTags)) = watchedTags
          /\ Stripped(tagInput, watchedTags'[Len(watchedTags')])
       \/ \E i \in 1..Len(watchedTags) :
             /\ watchedTags' =
                   SubSeq(watchedTags, 1, i - 1) \o
                   SubSeq(watchedTags, i + 1, Len(watchedTags))
             /\ ~TagsInclude(watchedTags', watchedTags[i])

\* C26: the tags of a task being edited form a set: after any sequence of
\* addTag and removeTag from a duplicate-free list, the list holds no
\* duplicate and no empty or blank tag, every added tag is stored trimmed,
\* and removeTag(t) removes t and leaves every other tag in place.
C26_TagsFormASet == []C26_TagSet /\ [][C26_Step]_vars

\* A tag typed with white space around it has joined the tags of the task,
\* and the blank text that was typed next has not.
C26_Witness ==
    /\ isDialogOpen /\ editingTask # None
    /\ Len(watchedTags) = Len(The(editingTask).tags) + 1
    /\ watchedTags[Len(watchedTags)] = <<"u">>
    /\ tagInput = <<" ">>

\* ------------------------------------------------- saves through the dialog
\* The local list holds each task id at most once.
C27_IdsOnce ==
    \A i, j \in 1..Len(tasks) : i # j => tasks[i].id # tasks[j].id

\* onSubmit resumes with a response that is ok: the save.
SaveDone(s) ==
    /\ reqs[s].origin = "onSubmit" /\ reqs[s].pc = "done"
    /\ reqs[s].code \in {200, 201}
    /\ reqs'[s].origin # "onSubmit"

C27_Step ==
    \A s \in Slots :
       SaveDone(s) =>
          LET saved == reqs[s].result[1]
          IN  /\ ~isDialogOpen' /\ editingTask' = None
              /\ reqs[s].kind = "PATCH" =>
                    /\ Len(tasks') = Len(tasks)
                    /\ \A i \in 1..Len(tasks) :
                          tasks'[i] = IF tasks[i].id = saved.id THEN saved
                                      ELSE tasks[i]
              /\ reqs[s].kind = "POST" =>
                    /\ tasks' = Append(tasks, saved)
                    /\ \A i \in 1..Len(tasks) : tasks[i].id # saved.id

\* C27: after any sequence of successful saves through the dialog the local
\* list holds each task id at most once: saving an edit replaces exactly the
\* entry of the saved id and leaves the length and every other entry as
\* they were, saving a new task appends exactly one entry, and every save
\* closes the dialog and clears the task being edited.
C27_SavesKeepIdsOnce == []C27_IdsOnce /\ [][C27_Step]_vars

\* A new task has been saved after an edit of the first one was saved.
C27_Witness ==
    /\ Len(tasks) = 2 /\ tasks[2].id = 2
    /\ tasks[1].items # <<>>
    /\ ~isDialogOpen /\ editingTask = None

\* --------------------------------------------------- the personal timeline
\* The tasks the personal timeline shows in the week on display.
C28_Shown ==
    {task \in {tasks[i] : i \in 1..Len(tasks)} :
        \E k \in 1..DaysPerWeek : Holds(dayTasks(days[k]), task)}

Carries(task, tag) == \E i \in 1..Len(task.tags) : task.tags[i] = tag

\* C28: the personal timeline shows only tasks of the session user and,
\* with a tag other than "all" selected, only those that carry the tag;
\* with "all" selected the tag filter removes no task.
C28_OwnTasksOfTheTag ==
    /\ \A task \in C28_Shown :
          /\ task.userId = ClientUser
          /\ selectedTag # "all" => Carries(task, selectedTag)
    /\ \A i \in 1..Len(personalTasks) :
          /\ personalTasks[i].userId = ClientUser
          /\ selectedTag # "all" => Carries(personalTasks[i], selectedTag)
    /\ selectedTag = "all" =>
          \A i \in 1..Len(tasks) :
             tasks[i].userId = ClientUser => Holds(personalTasks, tasks[i])

\* A tag is selected; the timeline shows the session user's task that
\* carries it, and neither the other user's task that carries it too nor
\* a task without it.
C28_Witness ==
    /\ selectedTag = "t"
    /\ tasks[1].userId = ClientUser /\ Carries(tasks[1], "t")
    /\ tasks[2].userId # ClientUser /\ Carries(tasks[2], "t")
    /\ C28_Shown = {tasks[1]}

\* ------------------------------------------------------ the loading state
\* The step in which fetchTasks ends.
C29_Step ==
    \A s \in Slots :
       (reqs[s].origin = "fetchTasks" /\ reqs'[s].origin # "fetchTasks") =>
          /\ ~isLoading'
          /\ tasks' \in {<<>>, reqs[s].result}
          /\ (reqs[s].pc # "done" \/ reqs[s].code # 200) => tasks' = <<>>

\* C29: a list view that has mounted eventually leaves the loading state,
\* whether its fetch succeeds, is answered with an error or throws; the
\* list is empty while the view loads, and stays empty when the fetch has
\* not succeeded.
C29_LeavesLoading ==
    /\ (mounted ~> ~isLoading)
    /\ [](isLoading => tasks = <<>>)
    /\ [][C29_Step]_vars

\* The view has left the loading state with an empty list although its
\* user has tasks: its fetch did not succeed.
C29_Witness ==
    /\ mounted /\ ~isLoading /\ tasks = <<>>
    /\ \A s \in Slots : reqs[s].kind = "idle"
    /\ \E d \in db : d.userId = ClientUser

\* ------------------------------------------------- the colour of a user
\* The sum of code * 31^k over the characters of an id, for ids short
\* enough for the sum to stay below 2^31.
RECURSIVE PlainHash(_)
PlainHash(userId) ==
    IF userId = <<>> THEN 0
    ELSE 31 * PlainHash(SubSeq(userId, 1, Len(userId) - 1))
         + userId[Len(userId)]

C30_Badge(badge) ==
    /\ badge.index \in 0..9
    /\ badge.color = colors[badge.index + 1]
    /\ badge.color = getUserColor(badge.userId)
    /\ Len(badge.userId) <= 3 => badge.index = PlainHash(badge.userId) % 10

C30_Rendered ==
    /\ Len(colors) = 10
    /\ (avatar # None /\ The(avatar).rendered) => C30_Badge(The(avatar))

\* A badge rendered again keeps its colour.
C30_Step ==
    (avatar # None /\ The(avatar).rendered) => avatar' = avatar

\* C30: getUserColor gives a user id the same colour every time, and for
\* every id, the empty one and those whose hash is negative or -2^31
\* included, the index is in 0..9 and the colour is one of the palette.
C30_ColourOfThePalette == []C30_Rendered /\ [][C30_Step]_vars

\* The badge of a user whose id hashes to -2^31.
C30_Witness ==
    /\ avatar # None /\ The(avatar).rendered
    /\ hash(The(avatar).userId) = [hi |-> 32768, lo |-> 0]
    /\ The(avatar).index = 8

====
